---- MODULE Spec2Model ----
(***************************************************************************)
(* AITimeline: turn identity, identity-keyed annotation stores and the     *)
(* chat-time recorder.                                                     *)
(*                                                                         *)
(* The module holds several specifications over one set of variables:      *)
(*   SpecStar  - StarStorageManager / PinStorageManager (array stores)     *)
(*   SpecChat  - ChatTimeStorageManager called operation by operation      *)
(*   SpecRec   - ChatTimeRecorder: recording, identity polling, reset      *)
(*   SpecId    - the adapters' turn ids over a changing host document       *)
(*   SpecLookup- markers and lookup by stored key                           *)
(*   SpecMig   - migration of the stores from sync to local storage        *)
(*   SpecLoad  - the load-time scripts: migration and cleanup              *)
(*   SpecIo    - StorageAdapter failures under the store managers          *)
(*   SpecTree  - conversation container lookup over a document tree        *)
(*   SpecFolder, SpecFolderStar - folder handlers and starred records      *)
(*   SpecText  - extractText of the adapters                               *)
(*   SpecCleanup - cleanupTempIds over recorded conversations              *)
(*   SpecPoll  - the recorder with recordings that overlap a poll chain    *)
(*   SpecMon   - the recorder's event handlers and the label rendering     *)
(*   SpecMonitor - AIStateMonitor                                          *)
(*   SpecImport - import in merge mode                                     *)
(* Every specification leaves the variables of the others unchanged.       *)
(***************************************************************************)
EXTENDS Integers, Sequences, FiniteSets, TLC

VARIABLES
    \* ---- star / pin stores (chrome.storage.local keys chatTimelineStars / chatTimelinePins)
    fam,          \* the record family this run is about (its storage key)
    store,        \* the array stored under that key
    spc,          \* writer -> position inside its store operation
    sop,          \* writer -> the operation it is running
    sitems,       \* writer -> the array its getAll() returned
    sbefore,      \* writer -> the stored array when the operation was called (history)
    salone,       \* writer -> no other operation has been in flight during this one (history)
    since,        \* writer -> changes written by others after this writer's read (history)
    lastWrite,    \* the last StorageAdapter.set of a store operation (history)
    lastDone,     \* the last completed store operation (history)
    expected,     \* key -> last item upserted (history)
    serial,       \* no two store operations have overlapped so far (history)
    onlyAdds,     \* only add() has been called so far (history)
    scalls,       \* number of store operations started
    \* ---- chat times (chrome.storage.local key chatTimes) and the clock
    chatTimes,    \* conversationKey -> { createTime, lastVisit, nodes } or NoRec
    now,          \* Date.now()
    clast,        \* the last completed ChatTimeStorageManager call (history)
    cprev,        \* the completed call before it (history)
    ccalls,       \* number of ChatTimeStorageManager calls made directly
    \* ---- the host document and the adapter
    adapter,      \* the adapter selected for the page
    dom,          \* the elements matching getUserMessageSelector(), in document order
    attr,         \* element -> its data-message-id ("" when the host has not set one)
    nodeIdCache,  \* DoubaoAdapter._nodeIdCache: element -> cached nodeId ("" when absent)
    nextElem,     \* number of elements the host has created
    hsteps,       \* number of changes the host has made to existing elements
    stableKey,    \* element -> first platform-id-derived key generateTurnId returned (history)
    lastKey,      \* element -> the key generateTurnId returned last, and the attribute then (history)
    scanKeys,     \* the keys of the last pass over all matched elements
    markers,      \* timelineManager.markers
    markerMap,    \* timelineManager.markerMap: turn id -> index into markers
    look,         \* the last lookup by stored key and its result (history)
    starred,      \* the key stored for a starred turn, with the turn (history)
    \* ---- ChatTimeRecorder
    href,         \* location.href
    pendingRecord,\* ChatTimeRecorder._pendingRecord
    inv,          \* invocation of _recordNewNodeTime -> its locals and positions
    rst,          \* navigation -> the updateLastVisit call of its reset()
    navs,         \* number of navigations
    \* ---- chrome.storage.sync / chrome.storage.local and the migrations run at load
    syncArea,     \* chrome.storage.sync: key -> value or Absent
    localArea,    \* chrome.storage.local: key -> value or Absent
    mig,          \* script load -> the migration it runs, its locals and position
    copied,       \* keys a scope migration has written to local so far (history)
    \* ---- the store calls a script makes when it loads
    loadCall,     \* script load -> its ChatTimeStorageManager.cleanup(30) call
    \* ---- StorageAdapter over a backend whose calls can fail
    backend,      \* "chrome" when isChromeStorageAvailable(), else "localStorage"
    ioStore,      \* the value stored under chatTimelineStars (Undefined when absent)
    ioLast,       \* the last store call and how it ended (history)
    ioCalls,      \* number of store calls made
    \* ---- the host document as a tree and the conversation container
    parentOf,     \* node -> its parent element (NoNode for the document root)
    kindOf,       \* node -> what it is: a user message, an assistant message, other
    container,    \* the container findConversationContainer returned (NoNode: null)
    located,      \* findConversationContainer has been called
    \* ---- the folders of the starred tab
    folders,      \* the stored folders: records { id, name, parentId }
    freq,         \* request -> the folder handler it runs, its locals and position
    nextFolder,   \* number of folder ids handed out
    fcalls,       \* number of folder handlers called
    \* ---- extractText of the adapters
    txAdapter,    \* the adapter whose extractText is called
    txElem,       \* the matched element it is called with
    txOut,        \* how the call ended: threw, or the string returned (history)
    \* ---- AIStateMonitor and the recorder's event handlers
    monRunning,   \* AIStateMonitor._adapter is set and the body subscription is active
    generating,   \* AIStateMonitor._generating
    aiGenerating, \* adapter.isAIGenerating(): the host shows its stop button
    events,       \* the ai:stateChange events dispatched, with start() and stop() (history)
    checks,       \* number of events the recorder has handled
    recorderKind, \* the event the recorder listens to (ai:stateChange or
                  \* timeline:nodesChange), or "off" when chatTimes is not enabled
    labelVisible, \* ChatTimeRecorder._labelVisible
    renderPending,\* the _renderTimeLabels() calls that wait for their read of the store
    labels,       \* element -> the time shown in its data-ait-time (NoTime: none)
    \* ---- import in merge mode (DataSyncTab)
    impStore,     \* chrome.storage.local: collection key -> value or Undefined
    impCall,      \* the mergeData() call, its locals and position
    impCalls,     \* number of imports made
    \* ---- where the stored node keys came from
    stableNodes   \* conversation -> the node keys stored from a platform-assigned id (history)

starVars == <<fam, store, spc, sop, sitems, sbefore, salone, since, lastWrite,
              lastDone, expected, serial, onlyAdds, scalls>>

chatVars == <<chatTimes, now, clast, cprev, ccalls>>

domVars == <<adapter, dom, attr, nodeIdCache, nextElem, hsteps>>
idVars == <<stableKey, lastKey, scanKeys, markers, markerMap, look, starred>>

recVars == <<href, pendingRecord, inv, rst, navs>>

migVars == <<syncArea, localArea, mig, copied>>

loadVars == <<loadCall>>

ioVars == <<backend, ioStore, ioLast, ioCalls>>

treeVars == <<parentOf, kindOf, container, located>>

folderVars == <<folders, freq, nextFolder, fcalls>>

textVars == <<txAdapter, txElem, txOut>>

monRest == <<monRunning, generating, aiGenerating, events, checks, recorderKind,
             labelVisible, labels>>
monVars == <<monRest, renderPending>>

impVars == <<impStore, impCall, impCalls>>

provVars == <<stableNodes>>

lateVars == <<textVars, monVars, impVars, provVars>>

moreVars == <<loadVars, ioVars, treeVars, folderVars, lateVars>>

\* all of moreVars but the renders in flight
restVars == <<loadVars, ioVars, treeVars, folderVars, textVars, impVars, provVars, monRest>>

vars == <<starVars, chatVars, domVars, idVars, recVars, migVars, moreVars>>

----------------------------------------------------------------------------
(* Bounds *)

MaxStarCalls == 3
MaxChatCalls == 3
MaxNow == 3
MaxElems == 2
MaxHostSteps == 2
MaxInvocations == 2
MaxNavigations == 1
MaxLoads == 2
MaxIoCalls == 3
MaxNodes == 5
MaxFolderCalls == 3
MaxRequests == 2
\* entries of the monitor's event history
MaxEvents == 7
\* events the recorder handles
MaxHandled == 2
\* records of a stored or imported collection
MaxItems == 2
\* imports made
MaxImports == 1

----------------------------------------------------------------------------
(* Generic helpers *)

\* Array.prototype.findIndex, 1-based; 0 stands for -1
FindIndex(items, key) ==
    IF \E i \in 1..Len(items) : items[i].key = key
    THEN CHOOSE i \in 1..Len(items) :
            /\ items[i].key = key
            /\ \A j \in 1..(i - 1) : items[j].key # key
    ELSE 0

\* Array.prototype.filter(item => item.key !== key)
RECURSIVE FilterOut(_, _)
FilterOut(items, key) ==
    IF items = << >> THEN << >>
    ELSE IF Head(items).key # key
         THEN <<Head(items)>> \o FilterOut(Tail(items), key)
         ELSE FilterOut(Tail(items), key)

\* Array.prototype.filter(item => item.key === key): the inverted predicate
RECURSIVE FilterOnly(_, _)
FilterOnly(items, key) ==
    IF items = << >> THEN << >>
    ELSE IF Head(items).key = key
         THEN <<Head(items)>> \o FilterOnly(Tail(items), key)
         ELSE FilterOnly(Tail(items), key)

----------------------------------------------------------------------------
(* Strings that the code takes apart are sequences of one-character strings *)

Digits == <<"0", "1", "2", "3", "4", "5", "6", "7", "8", "9">>

\* String(n) for a non-negative integer
RECURSIVE NatToStr(_)
NatToStr(n) ==
    IF n < 10 THEN <<Digits[n + 1]>>
    ELSE NatToStr(n \div 10) \o <<Digits[(n % 10) + 1]>>

\* String.prototype.endsWith
EndsWith(str, suffix) ==
    /\ Len(suffix) <= Len(str)
    /\ SubSeq(str, Len(str) - Len(suffix) + 1, Len(str)) = suffix

\* String.prototype.startsWith
StartsWith(str, prefix) ==
    /\ Len(prefix) <= Len(str)
    /\ SubSeq(str, 1, Len(prefix)) = prefix

\* the decimal digits of a string as a number
RECURSIVE StrToNat(_)
StrToNat(str) ==
    IF str = << >> THEN 0
    ELSE 10 * StrToNat(SubSeq(str, 1, Len(str) - 1))
         + (CHOOSE d \in 0..9 : Digits[d + 1] = str[Len(str)])

\* String(parseInt(part, 10)) === part, for the unsigned strings of the model
IsCanonicalNat(part) ==
    /\ Len(part) >= 1
    /\ \A i \in 1..Len(part) : \E d \in 1..10 : Digits[d] = part[i]
    /\ Len(part) > 1 => part[1] # "0"

\* [a-z] under the i flag, for the lower-case strings of the model
Letters == {"a", "b", "c", "d", "e", "f", "g", "h", "i", "j", "k", "l", "m",
            "n", "o", "p", "q", "r", "s", "t", "u", "v", "w", "x", "y", "z"}

IsDigits(str) == \A i \in 1..Len(str) : \E d \in 1..10 : Digits[d] = str[i]

EmptyStr == << >>

----------------------------------------------------------------------------
(* Star / pin stores *)

Families == {"chatTimelineStars", "chatTimelinePins"}
Writers  == {1, 2}

EmptyKey  == ""                       \* a falsy key
StarKeys  == {"u:5", "u:6"}
Questions == {"a", "b"}
NoFolder  == "none"
FolderIds == {"f1"}

StarItems == [key : StarKeys \cup {EmptyKey}, question : Questions, folderId : {NoFolder}]
NullArg   == [null |-> TRUE]          \* null / undefined argument
IsNull(x) == x = NullArg

\* partial field sets accepted by update(key, updates)
StarUpdates == {[question |-> q] : q \in Questions} \cup {[folderId |-> f] : f \in FolderIds}

\* { ...item, ...updates }
Spread(item, updates) ==
    [f \in DOMAIN item |-> IF f \in DOMAIN updates THEN updates[f] ELSE item[f]]

NoOp == [kind |-> "none", key |-> EmptyKey, item |-> NullArg, updates |-> NullArg]

\* PinStorageManager has add and remove only
StarOps(f) ==
    {[kind |-> "add", key |-> EmptyKey, item |-> it, updates |-> NullArg] :
        it \in StarItems \cup {NullArg}}
    \cup
    {[kind |-> "remove", key |-> k, item |-> NullArg, updates |-> NullArg] :
        k \in StarKeys \cup {EmptyKey}}
    \cup
    IF f = "chatTimelineStars"
    THEN {[kind |-> "update", key |-> k, item |-> NullArg, updates |-> u] :
            k \in StarKeys \cup {EmptyKey}, u \in StarUpdates \cup {NullArg}}
    ELSE {}

\* the key an operation is about
OpKey(op) == IF op.kind = "add" THEN op.item.key ELSE op.key

\* the argument checks before the first await: TRUE when the operation returns at once
StarEarlyReturn(op) ==
    CASE op.kind = "add"    -> IsNull(op.item) \/ op.item.key = EmptyKey
      [] op.kind = "remove" -> op.key = EmptyKey
      [] op.kind = "update" -> op.key = EmptyKey \/ IsNull(op.updates)
      [] OTHER              -> TRUE

\* add(): always push, never replace
StarAddPushOnly(items, item) == Append(items, item)

\* add(): replace the record with the same key, else push
StarAdd(items, item) ==
    LET existingIndex == FindIndex(items, item.key)
    IN  IF existingIndex >= 1
        THEN [items EXCEPT ![existingIndex] = item]
        ELSE Append(items, item)

\* remove(): keeps the records whose key matches
StarRemoveInverted(items, key) == FilterOnly(items, key)

\* remove(): the filtered array (always written back)
StarRemove(items, key) == FilterOut(items, key)

\* update(): TRUE when the key was found and something is written
StarUpdateWrites(items, key) == FindIndex(items, key) >= 1

\* update(): the array written back
StarUpdate(items, key, updates) ==
    LET index == FindIndex(items, key)
    IN  [items EXCEPT ![index] = Spread(items[index], updates)]

\* the array an operation computes from the array it read
ApplyStarOp(op, items) ==
    CASE op.kind = "add"    -> StarAdd(items, op.item)
      [] op.kind = "remove" -> StarRemove(items, op.key)
      [] op.kind = "update" -> StarUpdate(items, op.key, op.updates)
      [] OTHER              -> items

\* the array passed to StorageAdapter.set, computed from the current stored array
StarPendingFresh(w) == ApplyStarOp(sop[w], store)

\* the array passed to StorageAdapter.set: computed from the array read earlier
StarPending(w) == ApplyStarOp(sop[w], sitems[w])

\* whether, after its read, the operation writes at all
StarWrites(op, items) ==
    IF op.kind = "update" THEN StarUpdateWrites(items, op.key) ELSE TRUE

InFlight(w) == spc[w] # "idle"

\* a change holds in an array: the added record is there / the removed key is not
Holds(op, items) ==
    CASE op.kind = "add"    -> \E i \in 1..Len(items) : items[i] = op.item
      [] op.kind = "remove" -> \A i \in 1..Len(items) : items[i].key # op.key
      [] op.kind = "update" -> \E i \in 1..Len(items) :
                                  /\ items[i].key = op.key
                                  /\ \A f \in DOMAIN op.updates : items[i][f] = op.updates[f]
      [] OTHER              -> TRUE

KeyAbsent(items, key) == \A i \in 1..Len(items) : items[i].key # key

NoDone == [op |-> NoOp, before |-> << >>, after |-> << >>, alone |-> FALSE, wrote |-> FALSE]
NoWrite == [op |-> NoOp, since |-> {}, snapshot |-> << >>]

\* the history of a completed operation
Finish(w, wrote, after) ==
    /\ lastDone' = [op |-> sop[w], before |-> sbefore[w], after |-> after,
                    alone |-> salone[w], wrote |-> wrote]
    /\ expected' =
         IF sop[w].kind = "add" /\ wrote
         THEN [expected EXCEPT ![sop[w].item.key] = sop[w].item]
         ELSE expected

\* a caller invokes add / remove / update; the code up to the first await runs
StarCall(w, op) ==
    /\ spc[w] = "idle"
    /\ scalls < MaxStarCalls
    /\ scalls' = scalls + 1
    /\ onlyAdds' = (onlyAdds /\ op.kind = "add")
    /\ IF StarEarlyReturn(op)
       THEN /\ lastDone' = [op |-> op, before |-> store, after |-> store,
                            alone |-> \A v \in Writers : ~InFlight(v), wrote |-> FALSE]
            /\ UNCHANGED <<spc, sop, sitems, sbefore, salone, serial, expected>>
       ELSE /\ spc' = [spc EXCEPT ![w] = "read"]
            /\ sop' = [sop EXCEPT ![w] = op]
            /\ sbefore' = [sbefore EXCEPT ![w] = store]
            /\ salone' = [v \in Writers |->
                            IF v = w THEN \A u \in Writers : ~InFlight(u)
                            ELSE IF InFlight(v) THEN FALSE ELSE salone[v]]
            /\ serial' = (serial /\ \A v \in Writers : ~InFlight(v))
            /\ UNCHANGED <<sitems, lastDone, expected>>
    /\ UNCHANGED <<fam, store, since, lastWrite, chatVars, domVars, idVars, recVars, migVars, moreVars>>

\* the locals of a finished operation are dropped
Release(w) ==
    /\ spc' = [spc EXCEPT ![w] = "idle"]
    /\ sop' = [sop EXCEPT ![w] = NoOp]
    /\ sitems' = [sitems EXCEPT ![w] = << >>]
    /\ sbefore' = [sbefore EXCEPT ![w] = << >>]
    /\ salone' = [salone EXCEPT ![w] = TRUE]

\* StorageAdapter.get delivers the stored array (await this.getAll())
StarRead(w) ==
    /\ spc[w] = "read"
    /\ IF StarWrites(sop[w], store)
       THEN /\ spc' = [spc EXCEPT ![w] = "write"]
            /\ sitems' = [sitems EXCEPT ![w] = store]
            /\ UNCHANGED <<sop, sbefore, salone, lastDone, expected>>
       ELSE /\ Release(w)
            /\ Finish(w, FALSE, store)
    /\ UNCHANGED <<fam, store, since, lastWrite, serial, onlyAdds, scalls, chatVars, domVars, idVars, recVars, migVars, moreVars>>

\* StorageAdapter.set replaces the stored array
StarWrite(w) ==
    /\ spc[w] = "write"
    /\ store' = StarPending(w)
    /\ Release(w)
    /\ lastWrite' = [op |-> sop[w], since |-> since[w], snapshot |-> sitems[w]]
    /\ since' = [v \in Writers |->
                   IF v = w THEN {}
                   ELSE IF spc[v] = "write" THEN since[v] \cup {sop[w]}
                   ELSE since[v]]
    /\ Finish(w, TRUE, StarPending(w))
    /\ UNCHANGED <<fam, serial, onlyAdds, scalls, chatVars, domVars, idVars, recVars, migVars, moreVars>>

NextStar ==
    \/ \E w \in Writers, op \in StarOps(fam) : StarCall(w, op)
    \/ \E w \in Writers : StarRead(w)
    \/ \E w \in Writers : StarWrite(w)

----------------------------------------------------------------------------
(* ChatTimeStorageManager: every operation reads the whole chatTimes object, *)
(* changes it in memory and may write the whole object back.                *)

Convs   == {"c1", "c2"}               \* conversation keys (urlWithoutProtocol)
NoConv  == ""                         \* a falsy conversation key
NoTime  == 0                          \* null / undefined time (Date.now() is never 0)
NoRec   == [absent |-> TRUE]          \* all[conversationKey] is undefined

DoubaoPrefix == <<"d", "o", "u", "b", "a", "o", "-">>

\* node ids handed to the storage manager
TempKey0 == DoubaoPrefix \o <<"0">>
RealKeyA == DoubaoPrefix \o <<"a", "7">>
ChatNodeKeys == {TempKey0, RealKeyA}

DropKey(f, k) == [x \in (DOMAIN f) \ {k} |-> f[x]]
SetKey(f, k, v) == [x \in (DOMAIN f) \cup {k} |-> IF x = k THEN v ELSE f[x]]
EmptyNodes == [x \in {} |-> NoTime]

HasRec(all, conversationKey) ==
    conversationKey \in DOMAIN all /\ all[conversationKey] # NoRec

\* the outcome of an operation: the object in memory, whether it was written
\* back, and the value returned
Outcome(all, wrote, ret) == [all |-> all, wrote |-> wrote, ret |-> ret]

\* getByConversation(): the record, or an empty one
GetByConversation(all, conversationKey) ==
    IF HasRec(all, conversationKey) THEN all[conversationKey]
    ELSE [createTime |-> NoTime, lastVisit |-> NoTime, nodes |-> EmptyNodes]

\* updateLastVisit() that creates the record it does not find
UpdateLastVisitCreates(all, conversationKey, t) ==
    IF conversationKey = NoConv THEN Outcome(all, FALSE, FALSE)
    ELSE IF ~HasRec(all, conversationKey)
    THEN Outcome([all EXCEPT ![conversationKey] =
                     [createTime |-> NoTime, lastVisit |-> t, nodes |-> EmptyNodes]],
                 TRUE, TRUE)
    ELSE Outcome([all EXCEPT ![conversationKey].lastVisit = t], TRUE, TRUE)

\* updateLastVisit()
UpdateLastVisit(all, conversationKey, t) ==
    IF conversationKey = NoConv THEN Outcome(all, FALSE, FALSE)
    ELSE IF ~HasRec(all, conversationKey) THEN Outcome(all, FALSE, FALSE)
    ELSE Outcome([all EXCEPT ![conversationKey].lastVisit = t], TRUE, TRUE)

\* setCreateTime() that sets createTime on every call
SetCreateTimeOverwrite(all, conversationKey, timestamp) ==
    IF conversationKey = NoConv THEN Outcome(all, FALSE, FALSE)
    ELSE IF ~HasRec(all, conversationKey)
    THEN Outcome([all EXCEPT ![conversationKey] =
                     [createTime |-> timestamp, lastVisit |-> timestamp, nodes |-> EmptyNodes]],
                 TRUE, TRUE)
    ELSE Outcome([all EXCEPT ![conversationKey].createTime = timestamp], TRUE, TRUE)

\* setCreateTime()
SetCreateTime(all, conversationKey, timestamp) ==
    IF conversationKey = NoConv THEN Outcome(all, FALSE, FALSE)
    ELSE IF ~HasRec(all, conversationKey)
    THEN Outcome([all EXCEPT ![conversationKey] =
                     [createTime |-> timestamp, lastVisit |-> timestamp, nodes |-> EmptyNodes]],
                 TRUE, TRUE)
    ELSE IF all[conversationKey].createTime # NoTime THEN Outcome(all, FALSE, FALSE)
    ELSE Outcome([all EXCEPT ![conversationKey].createTime = timestamp], TRUE, TRUE)

\* the loop of batchSetNodeTimes(): add the nodes that are not stored yet
RECURSIVE AddNodes(_, _, _)
AddNodes(nodes, list, t) ==
    IF list = << >> THEN nodes
    ELSE LET n == Head(list)
             next == IF n.nodeId \notin DOMAIN nodes
                     THEN SetKey(nodes, n.nodeId,
                                 IF n.timestamp # NoTime THEN n.timestamp ELSE t)
                     ELSE nodes
         IN  AddNodes(next, Tail(list), t)

\* batchSetNodeTimes(): ret is addedCount
BatchSetNodeTimes(all, conversationKey, list, t) ==
    IF conversationKey = NoConv \/ list = << >> THEN Outcome(all, FALSE, 0)
    ELSE LET rec0 == IF HasRec(all, conversationKey) THEN all[conversationKey]
                     ELSE [createTime |-> NoTime, lastVisit |-> t, nodes |-> EmptyNodes]
             nodes1 == AddNodes(rec0.nodes, list, t)
             addedCount == Cardinality(DOMAIN nodes1) - Cardinality(DOMAIN rec0.nodes)
             rec1 == [rec0 EXCEPT !.nodes = nodes1, !.lastVisit = t]
         IN  Outcome([all EXCEPT ![conversationKey] = rec1], addedCount > 0, addedCount)

\* migrateNodeId() that copies the time to realId and leaves tempId in place
MigrateNodeIdKeepTemp(all, conversationKey, tempId, realId) ==
    IF conversationKey = NoConv \/ tempId = EmptyStr \/ realId = EmptyStr
    THEN Outcome(all, FALSE, FALSE)
    ELSE IF ~HasRec(all, conversationKey) THEN Outcome(all, FALSE, FALSE)
    ELSE LET nodes == all[conversationKey].nodes
         IN  IF tempId \in DOMAIN nodes
             THEN Outcome([all EXCEPT ![conversationKey].nodes =
                              SetKey(nodes, realId, nodes[tempId])],
                          TRUE, TRUE)
             ELSE Outcome(all, FALSE, FALSE)

\* migrateNodeId(): move the time stored under tempId to realId
MigrateNodeId(all, conversationKey, tempId, realId) ==
    IF conversationKey = NoConv \/ tempId = EmptyStr \/ realId = EmptyStr
    THEN Outcome(all, FALSE, FALSE)
    ELSE IF ~HasRec(all, conversationKey) THEN Outcome(all, FALSE, FALSE)
    ELSE LET nodes == all[conversationKey].nodes
         IN  IF tempId \in DOMAIN nodes
             THEN LET timestamp == nodes[tempId]
                  IN  Outcome([all EXCEPT ![conversationKey].nodes =
                                  SetKey(DropKey(nodes, tempId), realId, timestamp)],
                              TRUE, TRUE)
             ELSE Outcome(all, FALSE, FALSE)

\* /^[a-z]+-\d+$/i.test(nodeId)
IsTempNodeId(nodeId) ==
    \E p \in 2..(Len(nodeId) - 1) :
        /\ nodeId[p] = "-"
        /\ \A i \in 1..(p - 1) : nodeId[i] \in Letters
        /\ IsDigits(SubSeq(nodeId, p + 1, Len(nodeId)))

\* cleanupTempIds(): ret is cleanedCount
CleanupTempIds(all, conversationKey) ==
    IF conversationKey = NoConv THEN Outcome(all, FALSE, 0)
    ELSE IF ~HasRec(all, conversationKey) THEN Outcome(all, FALSE, 0)
    ELSE LET nodes == all[conversationKey].nodes
             temp == {nodeId \in DOMAIN nodes : IsTempNodeId(nodeId)}
             kept == [nodeId \in (DOMAIN nodes) \ temp |-> nodes[nodeId]]
             cleanedCount == Cardinality(temp)
         IN  Outcome([all EXCEPT ![conversationKey].nodes = kept],
                     cleanedCount > 0, cleanedCount)

\* cleanup(maxInactiveDays = 30). Times are compared in days (the factor
\* 24 * 60 * 60 * 1000 of both sides is left out); one tick of the model
\* clock is TickDays days
MaxInactiveDays == 30
TickDays == MaxInactiveDays

\* !data.lastVisit || (now - data.lastVisit > maxAge)
Expired(data, t, maxAge) ==
    data.lastVisit = NoTime \/ (t - data.lastVisit) * TickDays > maxAge

\* cleanup(): ret is cleanedCount
Cleanup(all, maxInactiveDays, t) ==
    LET maxAge == maxInactiveDays
        gone == {convKey \in DOMAIN all :
                    all[convKey] # NoRec /\ Expired(all[convKey], t, maxAge)}
    IN  Outcome([convKey \in DOMAIN all |->
                    IF convKey \in gone THEN NoRec ELSE all[convKey]],
                gone # {}, Cardinality(gone))

\* what the storage holds after the operation: the written object, or no change
Stored(all, out) == IF out.wrote THEN out.all ELSE all

NoCall == [kind |-> "none", conv |-> NoConv, a |-> EmptyStr, b |-> EmptyStr,
           ret |-> FALSE, wrote |-> FALSE, changed |-> FALSE]

\* one direct call, run to completion
ChatDone(kind, conv, a, b, out) ==
    /\ ccalls < MaxChatCalls
    /\ ccalls' = ccalls + 1
    /\ chatTimes' = Stored(chatTimes, out)
    /\ cprev' = clast
    /\ clast' = [kind |-> kind, conv |-> conv, a |-> a, b |-> b,
                 ret |-> out.ret, wrote |-> out.wrote,
                 changed |-> (Stored(chatTimes, out) # chatTimes)]
    /\ UNCHANGED <<now, starVars, domVars, idVars, recVars, migVars, moreVars>>

\* the arguments of direct calls: a falsy conversation key comes with one
\* representative of the other arguments
ConvArgs == Convs \cup {NoConv}
IdArgs == ChatNodeKeys \cup {EmptyStr}
NodeLists ==
    {<< >>} \cup {<<[nodeId |-> k, timestamp |-> t]>> : k \in ChatNodeKeys, t \in {NoTime, now}}

CallUpdateLastVisit(conv) ==
    ChatDone("updateLastVisit", conv, EmptyStr, EmptyStr, UpdateLastVisit(chatTimes, conv, now))

CallSetCreateTime(conv) ==
    ChatDone("setCreateTime", conv, EmptyStr, EmptyStr, SetCreateTime(chatTimes, conv, now))

CallBatchSetNodeTimes(conv, list) ==
    /\ conv = NoConv => list = << >>
    /\ ChatDone("batchSetNodeTimes", conv,
                IF list = << >> THEN EmptyStr ELSE list[1].nodeId, EmptyStr,
                BatchSetNodeTimes(chatTimes, conv, list, now))

CallMigrateNodeId(conv, tempId, realId) ==
    /\ conv = NoConv => (tempId = TempKey0 /\ realId = RealKeyA)
    /\ ChatDone("migrateNodeId", conv, tempId, realId,
                MigrateNodeId(chatTimes, conv, tempId, realId))

CallCleanupTempIds(conv) ==
    ChatDone("cleanupTempIds", conv, EmptyStr, EmptyStr, CleanupTempIds(chatTimes, conv))

\* ChatTimeStorageManager.cleanup(30), as called when the script loads
CallCleanup ==
    ChatDone("cleanup", NoConv, EmptyStr, EmptyStr, Cleanup(chatTimes, MaxInactiveDays, now))

\* the clock advances
Tick ==
    /\ now < MaxNow
    /\ now' = now + 1
    /\ UNCHANGED <<chatTimes, clast, cprev, ccalls, starVars, domVars, idVars, recVars, migVars, moreVars>>

NextChat ==
    \/ \E conv \in ConvArgs : CallUpdateLastVisit(conv)
    \/ \E conv \in ConvArgs : CallSetCreateTime(conv)
    \/ \E conv \in ConvArgs, list \in NodeLists : CallBatchSetNodeTimes(conv, list)
    \/ \E conv \in ConvArgs, tempId \in IdArgs, realId \in IdArgs :
          CallMigrateNodeId(conv, tempId, realId)
    \/ \E conv \in ConvArgs : CallCleanupTempIds(conv)
    \/ CallCleanup
    \/ Tick

----------------------------------------------------------------------------
(* The host document, the adapters' turn ids and lookup by stored key *)

Adapters == {"doubao", "tongyi"}
Elems == 1..MaxElems

TongyiPrefix == <<"t", "o", "n", "g", "y", "i", "-">>

\* data-message-id values the host assigns
AttrValues == {<<"a", "7">>, <<"1">>}

\* DoubaoAdapter._extractNodeIdFromDom() that reads the DOM on every call
ExtractNodeIdNoCache(e) == attr[e]

\* DoubaoAdapter._extractNodeIdFromDom(): the cached id, else the attribute;
\* "" stands for null
ExtractNodeIdFromDom(e) ==
    IF nodeIdCache[e] # EmptyStr THEN nodeIdCache[e] ELSE attr[e]

\* the cache after _extractNodeIdFromDom(e)
CacheAfter(cache, e) ==
    IF cache[e] = EmptyStr /\ ExtractNodeIdFromDom(e) # EmptyStr
    THEN [cache EXCEPT ![e] = ExtractNodeIdFromDom(e)]
    ELSE cache

\* DoubaoAdapter.generateTurnId(element, index), index counted from 0
DoubaoGenerateTurnId(e, index) ==
    LET nodeId == ExtractNodeIdFromDom(e)
    IN  IF nodeId # EmptyStr THEN DoubaoPrefix \o nodeId
        ELSE DoubaoPrefix \o NatToStr(index)

\* TongyiAdapter.generateTurnId(element, index)
TongyiGenerateTurnId(e, index) == TongyiPrefix \o NatToStr(index)

GenerateTurnId(e, index) ==
    IF adapter = "doubao" THEN DoubaoGenerateTurnId(e, index)
    ELSE TongyiGenerateTurnId(e, index)

\* the key is derived from a platform-assigned id
IsStableCall(e) == adapter = "doubao" /\ ExtractNodeIdFromDom(e) # EmptyStr

\* the cache after generateTurnId was called for every element of a list
RECURSIVE CacheAfterAll(_, _)
CacheAfterAll(cache, list) ==
    IF list = << >> THEN cache
    ELSE CacheAfterAll(IF adapter = "doubao" THEN CacheAfter(cache, Head(list)) ELSE cache,
                       Tail(list))

\* userTurnElements.forEach((element, index) => adapter.generateTurnId(element, index))
TurnIds(list) == [i \in 1..Len(list) |-> GenerateTurnId(list[i], i - 1)]

\* ---- the host page

\* a platform id is given to one message only
FreshId(e, v) ==
    \A o \in Elems \ {e} : attr[o] # v /\ nodeIdCache[o] # v

\* the user sends a message / the page shows one more user turn
HostAppend(v) ==
    /\ nextElem < MaxElems
    /\ v # EmptyStr => FreshId(nextElem + 1, v)
    /\ nextElem' = nextElem + 1
    /\ dom' = Append(dom, nextElem + 1)
    /\ attr' = [attr EXCEPT ![nextElem + 1] = v]
    /\ UNCHANGED <<adapter, nodeIdCache, hsteps, idVars, starVars, chatVars, recVars, migVars, moreVars>>

\* the host sets (hydrates) or drops (re-renders) the id attribute of a turn
HostSetAttr(i, v) ==
    /\ hsteps < MaxHostSteps
    /\ i \in 1..Len(dom)
    /\ attr[dom[i]] # v
    /\ v # EmptyStr => FreshId(dom[i], v)
    /\ attr' = [attr EXCEPT ![dom[i]] = v]
    /\ hsteps' = hsteps + 1
    /\ UNCHANGED <<adapter, dom, nodeIdCache, nextElem, idVars, starVars, chatVars, recVars, migVars, moreVars>>

\* the host removes a turn from the document
HostRemove(i) ==
    /\ hsteps < MaxHostSteps
    /\ i \in 1..Len(dom)
    /\ dom' = SubSeq(dom, 1, i - 1) \o SubSeq(dom, i + 1, Len(dom))
    /\ hsteps' = hsteps + 1
    /\ UNCHANGED <<adapter, attr, nodeIdCache, nextElem, idVars, starVars, chatVars, recVars, migVars, moreVars>>

\* ---- calls into the adapter

\* the history of generateTurnId(e, index)
NoKey == [key |-> EmptyStr, attr |-> EmptyStr]
KeysAfter(keys, e, index) ==
    [keys EXCEPT ![e] = [key |-> GenerateTurnId(e, index), attr |-> attr[e]]]
StableAfter(keys, e, index) ==
    IF keys[e] = EmptyStr /\ IsStableCall(e)
    THEN [keys EXCEPT ![e] = GenerateTurnId(e, index)]
    ELSE keys

\* one call adapter.generateTurnId(dom[i], i - 1)
CallGenerateTurnId(i) ==
    /\ i \in 1..Len(dom)
    /\ nodeIdCache' = CacheAfterAll(nodeIdCache, <<dom[i]>>)
    /\ lastKey' = KeysAfter(lastKey, dom[i], i - 1)
    /\ stableKey' = StableAfter(stableKey, dom[i], i - 1)
    /\ lastKey' # lastKey \/ nodeIdCache' # nodeIdCache
    /\ UNCHANGED <<adapter, dom, attr, nextElem, hsteps, scanKeys, markers, markerMap, look, starred,
                   starVars, chatVars, recVars, migVars, moreVars>>

\* a pass over all matched elements, as in _renderTimeLabels()
ScanTurns ==
    /\ dom # << >>
    /\ scanKeys' = TurnIds(dom)
    /\ nodeIdCache' = CacheAfterAll(nodeIdCache, dom)
    /\ lastKey' = [e \in Elems |->
                     IF \E i \in 1..Len(dom) : dom[i] = e
                     THEN [key |-> GenerateTurnId(e, (CHOOSE i \in 1..Len(dom) : dom[i] = e) - 1),
                           attr |-> attr[e]]
                     ELSE lastKey[e]]
    /\ stableKey' = [e \in Elems |->
                       IF (\E i \in 1..Len(dom) : dom[i] = e)
                          /\ stableKey[e] = EmptyStr /\ IsStableCall(e)
                       THEN GenerateTurnId(e, (CHOOSE i \in 1..Len(dom) : dom[i] = e) - 1)
                       ELSE stableKey[e]]
    /\ UNCHANGED <<adapter, dom, attr, nextElem, hsteps, markers, markerMap, look, starred,
                   starVars, chatVars, recVars, migVars, moreVars>>

\* ---- markers and lookup by stored key

NullMarker == [null |-> TRUE]
NoLook == [key |-> [type |-> "null", num |-> 0, str |-> EmptyStr],
           via |-> "none", result |-> NullMarker]

\* the timeline manager rebuilds markers and markerMap from the document: one
\* marker per matched element, keyed by generateTurnId
MarkersOf(list) ==
    [i \in 1..Len(list) |-> [id |-> GenerateTurnId(list[i], i - 1), element |-> list[i]]]

MarkerMaps(ms) ==
    {m \in [{ms[i].id : i \in 1..Len(ms)} -> 1..Len(ms)] :
        \A id \in DOMAIN m : ms[m[id]].id = id}

Recalculate ==
    /\ adapter = "doubao"
    /\ markers' = MarkersOf(dom)
    /\ markers' # markers
    /\ markerMap' \in MarkerMaps(markers')
    /\ nodeIdCache' = CacheAfterAll(nodeIdCache, dom)
    /\ look' = NoLook
    /\ UNCHANGED <<adapter, dom, attr, nextElem, hsteps, stableKey, lastKey, scanKeys, starred,
                   starVars, chatVars, recVars, migVars, moreVars>>

\* stored keys: item.nodeId (a string) or item.index (a number), or null
StoredKeys ==
    {[type |-> "number", num |-> n, str |-> EmptyStr] : n \in 0..MaxElems}
    \cup {[type |-> "string", num |-> 0, str |-> v] : v \in AttrValues \cup {<<"z">>}}
    \cup {[type |-> "null", num |-> 0, str |-> EmptyStr]}

\* `${storedKey}`
KeyToStr(k) == IF k.type = "number" THEN NatToStr(k.num) ELSE k.str

\* DoubaoAdapter.generateTurnIdFromIndex(identifier)
GenerateTurnIdFromIndex(k) == DoubaoPrefix \o KeyToStr(k)

\* markerMap.get(turnId)
MapGet(ms, mm, turnId) == IF turnId \in DOMAIN mm THEN ms[mm[turnId]] ELSE NullMarker

\* a positional fallback that takes the nearest marker for a number out of range
PositionalNearest(k, ms) ==
    IF k.type = "number" /\ k.num >= 0 /\ ms # << >>
    THEN (IF k.num < Len(ms) THEN ms[k.num + 1] ELSE ms[Len(ms)])
    ELSE NullMarker

\* the positional fallback: markers[storedKey] for a number within range
Positional(k, ms) ==
    IF k.type = "number" /\ k.num >= 0 /\ k.num < Len(ms) THEN ms[k.num + 1] ELSE NullMarker

\* a lookup that tries the position first
FindMarkerPositionFirst(k, ms, mm) ==
    IF k.type = "null" THEN NullMarker
    ELSE IF Positional(k, ms) # NullMarker THEN Positional(k, ms)
    ELSE MapGet(ms, mm, DoubaoPrefix \o KeyToStr(k))

\* DoubaoAdapter.findMarkerByStoredIndex(storedKey, markers, markerMap)
FindMarkerByStoredIndex(k, ms, mm) ==
    IF k.type = "null" THEN NullMarker
    ELSE LET turnId == DoubaoPrefix \o KeyToStr(k)
             marker == MapGet(ms, mm, turnId)
         IN  IF marker # NullMarker THEN marker
             ELSE Positional(k, ms)

\* findMarkerByNodeKey(tm, nodeKey); via tells which methods tm.adapter has:
\* "findMarkerByStoredIndex", or only "generateTurnIdFromIndex"
FindMarkerByNodeKey(via, k, ms, mm) ==
    IF k.type = "null" THEN NullMarker
    ELSE IF via = "findMarkerByStoredIndex" THEN FindMarkerByStoredIndex(k, ms, mm)
    ELSE LET marker == MapGet(ms, mm, GenerateTurnIdFromIndex(k))
         IN  IF marker # NullMarker THEN marker
             ELSE Positional(k, ms)

Vias == {"findMarkerByStoredIndex", "generateTurnIdFromIndex"}

NullKey == [type |-> "null", num |-> 0, str |-> EmptyStr]

\* DoubaoAdapter.extractIndexFromTurnId(turnId): the part after 'doubao-', as
\* a number when it reads as one
ExtractIndexFromTurnId(turnId) ==
    IF turnId = EmptyStr THEN NullKey
    ELSE IF StartsWith(turnId, DoubaoPrefix)
    THEN LET part == SubSeq(turnId, Len(DoubaoPrefix) + 1, Len(turnId))
         IN  IF IsCanonicalNat(part)
             THEN [type |-> "number", num |-> StrToNat(part), str |-> EmptyStr]
             ELSE [type |-> "string", num |-> 0, str |-> part]
    ELSE NullKey

NoStar == [key |-> NullKey, element |-> 0, temp |-> FALSE]

\* the user stars the turn of marker i: the stored key is taken from the
\* marker's id; temp tells that the id was derived from the index
StarTurn(i) ==
    /\ adapter = "doubao"
    /\ starred = NoStar
    /\ i \in 1..Len(markers)
    /\ starred' = [key |-> ExtractIndexFromTurnId(markers[i].id),
                   element |-> markers[i].element,
                   temp |-> nodeIdCache[markers[i].element] = EmptyStr]
    /\ UNCHANGED <<domVars, stableKey, lastKey, scanKeys, markers, markerMap, look,
                   starVars, chatVars, recVars, migVars, moreVars>>

\* a starred item is opened: the marker is looked up by its stored key
Lookup(via, k) ==
    /\ adapter = "doubao"
    /\ look' = [key |-> k, via |-> via, result |-> FindMarkerByNodeKey(via, k, markers, markerMap)]
    /\ look' # look
    /\ UNCHANGED <<domVars, stableKey, lastKey, scanKeys, markers, markerMap, starred,
                   starVars, chatVars, recVars, migVars, moreVars>>

\* what the host page does
NextHost ==
    \/ \E v \in AttrValues \cup {EmptyStr} : HostAppend(v)
    \/ \E i \in 1..MaxElems, v \in AttrValues \cup {EmptyStr} : HostSetAttr(i, v)
    \/ \E i \in 1..MaxElems : HostRemove(i)

NextId ==
    \/ NextHost
    \/ \E i \in 1..MaxElems : CallGenerateTurnId(i)
    \/ ScanTurns

NextLookup ==
    \/ NextHost
    \/ Recalculate
    \/ \E via \in Vias, k \in StoredKeys : Lookup(via, k)
    \/ \E i \in 1..MaxElems : StarTurn(i)

----------------------------------------------------------------------------
(* ChatTimeRecorder: recording the time of a new turn, polling for its real *)
(* id, migrating the stored key, and reset() on a conversation switch.      *)
(* In SpecRec and SpecPoll the recorder runs with chatTimeLabelEnabled =    *)
(* false, so _renderTimeLabels() returns before it reads anything; the      *)
(* times are recorded all the same. SpecMon shows the labels.               *)

Invs == 1..MaxInvocations
Navs == 1..MaxNavigations

Urls == {[protocol |-> "https://", rest |-> "c1", query |-> "?q=1", hash |-> ""],
         [protocol |-> "https://", rest |-> "c2", query |-> "", hash |-> "#h"]}

\* getConversationKey(): the url without protocol, query and fragment
GetConversationKey(url) == url.rest

\* features.stableNodeId of the platform the recorder runs on
StableNodeId == TRUE

\* the retry limit of _pollForRealId
MaxRetry == 10

\* _pollForRealId: retryCount > 10
RetryExceeded(retryCount) == retryCount > MaxRetry

\* nodeId.endsWith(`-${index}`)
IsTempId(nodeId, index) == EndsWith(nodeId, <<"-">> \o NatToStr(index))

EmptyStore == [c \in Convs |-> NoRec]

NoInv == [rpc |-> "idle", wpc |-> "none", ppc |-> "none",
          lastIndex |-> 0, lastNodeId |-> EmptyStr, conv0 |-> NoConv, isNew |-> FALSE,
          convW |-> NoConv, ts |-> NoTime, retry |-> 0, wall |-> EmptyStore,
          migConv |-> NoConv, migTemp |-> EmptyStr, migReal |-> EmptyStr,
          exhausted |-> FALSE, detected |-> FALSE, wrote |-> {}]

NoReset == [pc |-> "idle", conv |-> NoConv, all |-> EmptyStore]

RecIdle ==
    /\ href = CHOOSE u \in Urls : u.rest = "c1"
    /\ pendingRecord = NullArg
    /\ inv = [i \in Invs |-> NoInv]
    /\ rst = [n \in Navs |-> NoReset]
    /\ navs = 0

\* every thread of recording i has ended
Finished(i) ==
    /\ inv[i].rpc = "done"
    /\ inv[i].wpc \in {"none", "done"}
    /\ inv[i].ppc \in {"none", "done"}

\* Date.now() at the next event
Later == IF now < MaxNow THEN now + 1 ELSE now

\* _renderTimeLabels() up to its await of getByConversation(): nothing when
\* the labels are switched off or no turn is in the document, else one more
\* render in flight, holding the elements and the conversation key it took
RenderCall(pending) ==
    IF ~labelVisible \/ dom = << >> THEN pending
    ELSE Append(pending, [els |-> dom, conv |-> GetConversationKey(href)])

\* _recordNewNodeTime() of recording i up to its await of getByConversation()
RecBeginCore(i) ==
    /\ inv[i].rpc = "idle"
    /\ dom # << >>
    /\ LET lastIndex == Len(dom) - 1
           lastElement == dom[Len(dom)]
       IN  /\ inv' = [inv EXCEPT ![i] =
                       [@ EXCEPT !.rpc = "check",
                                 !.lastIndex = lastIndex,
                                 !.lastNodeId = GenerateTurnId(lastElement, lastIndex),
                                 !.conv0 = GetConversationKey(href),
                                 !.isNew = (Len(dom) = 1)]]
           /\ nodeIdCache' = CacheAfterAll(nodeIdCache, <<lastElement>>)
    /\ now' = Later

RecBegin(i) ==
    /\ RecBeginCore(i)
    /\ UNCHANGED <<adapter, dom, attr, nextElem, hsteps, href, pendingRecord, rst, navs,
                   idVars, starVars, chatTimes, clast, cprev, ccalls, migVars, moreVars>>

\* ai:stateChange with generating = true: _recordNewNodeTime() up to its
\* await of getByConversation(). Recordings are taken one after the other:
\* the event of recording i arrives when the threads of recording i - 1
\* have ended.
RecStart(i) ==
    /\ \A j \in Invs : j < i => Finished(j)
    /\ RecBegin(i)

\* the event of recording i arrives while the poll chain of an earlier
\* recording still waits for its timer (a message sent within the 500 ms
\* retries of the one before); the earlier calls have returned
RecStartOverlapping(i) ==
    /\ \E j \in Invs : j < i /\ inv[j].ppc = "timer"
    /\ \A j \in Invs : j < i => (inv[j].rpc = "done" /\ inv[j].wpc \in {"none", "done"})
    /\ RecBegin(i)


\* _recordNewNodeTime() after the read: return if the node is recorded, else
\* start _recordNodes() (not awaited) and, for a temporary id, the polling
RecCheck(i) ==
    /\ inv[i].rpc = "check"
    /\ LET me == inv[i]
           data == GetByConversation(chatTimes, me.conv0)
           isTempId == IsTempId(me.lastNodeId, me.lastIndex)
       IN  IF me.lastNodeId \in DOMAIN data.nodes
           THEN /\ inv' = [inv EXCEPT ![i] = [@ EXCEPT !.rpc = "done"]]
                /\ renderPending' = RenderCall(renderPending)
                /\ UNCHANGED pendingRecord
           ELSE /\ inv' = [inv EXCEPT ![i] =
                            [@ EXCEPT !.rpc = "done",
                                      !.ts = now,
                                      !.convW = GetConversationKey(href),
                                      !.wpc = IF me.isNew THEN "sct" ELSE "bs",
                                      !.ppc = IF StableNodeId /\ isTempId THEN "timer" ELSE "none"]]
                /\ pendingRecord' =
                      IF StableNodeId /\ isTempId
                      THEN [index |-> me.lastIndex, tempId |-> me.lastNodeId]
                      ELSE pendingRecord
                /\ UNCHANGED renderPending
    /\ UNCHANGED <<href, rst, navs, domVars, idVars, starVars, chatVars, migVars, restVars>>

\* _recordNodes(): setCreateTime() reads and decides
RecSetCreateTime(i) ==
    /\ inv[i].wpc = "sct"
    /\ LET out == SetCreateTime(chatTimes, inv[i].convW, inv[i].ts)
       IN  inv' = [inv EXCEPT ![i] =
                     IF out.wrote THEN [@ EXCEPT !.wpc = "sctw", !.wall = out.all]
                     ELSE [@ EXCEPT !.wpc = "bs"]]
    /\ UNCHANGED <<href, pendingRecord, rst, navs, domVars, idVars, starVars, chatVars, migVars, moreVars>>

\* the write of setCreateTime() lands: StorageAdapter.set(STORAGE_KEY, all)
RecSetCreateTimeWrite(i) ==
    /\ inv[i].wpc = "sctw"
    /\ chatTimes' = inv[i].wall
    /\ inv' = [inv EXCEPT ![i] =
                  [@ EXCEPT !.wpc = "bs", !.wall = EmptyStore, !.wrote = @ \cup {inv[i].convW}]]
    /\ UNCHANGED <<now, clast, cprev, ccalls,
                   href, pendingRecord, rst, navs, domVars, idVars, starVars, migVars, moreVars>>

\* _recordNodes(): batchSetNodeTimes() reads and decides
RecBatchSet(i) ==
    /\ inv[i].wpc = "bs"
    /\ LET out == BatchSetNodeTimes(chatTimes, inv[i].convW,
                       <<[nodeId |-> inv[i].lastNodeId, timestamp |-> inv[i].ts]>>, now)
       IN  inv' = [inv EXCEPT ![i] =
                     IF out.wrote THEN [@ EXCEPT !.wpc = "bsw", !.wall = out.all]
                     ELSE [@ EXCEPT !.wpc = "done"]]
    /\ UNCHANGED <<href, pendingRecord, rst, navs, domVars, idVars, starVars, chatVars, migVars, moreVars>>

\* the write of batchSetNodeTimes() lands
RecBatchSetWrite(i) ==
    /\ inv[i].wpc = "bsw"
    /\ chatTimes' = inv[i].wall
    /\ inv' = [inv EXCEPT ![i] =
                  [@ EXCEPT !.wpc = "done", !.wall = EmptyStore, !.wrote = @ \cup {inv[i].convW}]]
    /\ renderPending' = RenderCall(renderPending)
    /\ UNCHANGED <<now, clast, cprev, ccalls,
                   href, pendingRecord, rst, navs, domVars, idVars, starVars, migVars, restVars>>

\* the timer of _pollForRealId(adapter, expectedIndex, retryCount) fires and,
\* on a temporary id, the recursive call tests retryCount + 1; retry is the
\* retryCount of the pending timer and is dropped with the chain
RecTimer(i) ==
    /\ inv[i].ppc = "timer"
    /\ LET me == inv[i]
           expectedIndex == me.lastIndex
           present == expectedIndex + 1 <= Len(dom)
           lastElement == dom[expectedIndex + 1]
           nodeId == GenerateTurnId(lastElement, expectedIndex)
           ended == [me EXCEPT !.ppc = "done", !.retry = 0]
       IN  IF pendingRecord = NullArg
           THEN /\ inv' = [inv EXCEPT ![i] = ended]
                /\ UNCHANGED <<pendingRecord, nodeIdCache>>
           ELSE IF ~present
           THEN /\ inv' = [inv EXCEPT ![i] = ended]
                /\ pendingRecord' = NullArg
                /\ UNCHANGED nodeIdCache
           ELSE /\ nodeIdCache' = CacheAfterAll(nodeIdCache, <<lastElement>>)
                /\ IF ~IsTempId(nodeId, expectedIndex)
                   THEN /\ inv' = [inv EXCEPT ![i] =
                                    [me EXCEPT !.ppc = "mig", !.retry = 0, !.detected = TRUE,
                                               !.migConv = GetConversationKey(href),
                                               !.migTemp = pendingRecord.tempId,
                                               !.migReal = nodeId]]
                        /\ pendingRecord' = NullArg
                   ELSE IF RetryExceeded(me.retry + 1)
                   THEN /\ inv' = [inv EXCEPT ![i] = [ended EXCEPT !.exhausted = TRUE]]
                        /\ pendingRecord' = NullArg
                   ELSE /\ inv' = [inv EXCEPT ![i] = [me EXCEPT !.retry = @ + 1]]
                        /\ UNCHANGED pendingRecord
    /\ UNCHANGED <<adapter, dom, attr, nextElem, hsteps, href, rst, navs,
                   idVars, starVars, chatVars, migVars, moreVars>>

\* _migrateNodeId(): migrateNodeId() reads and decides
RecMigrate(i) ==
    /\ inv[i].ppc = "mig"
    /\ LET out == MigrateNodeId(chatTimes, inv[i].migConv, inv[i].migTemp, inv[i].migReal)
       IN  inv' = [inv EXCEPT ![i] =
                     IF out.wrote THEN [@ EXCEPT !.ppc = "migw", !.wall = out.all]
                     ELSE [@ EXCEPT !.ppc = "done"]]
    /\ UNCHANGED <<href, pendingRecord, rst, navs, domVars, idVars, starVars, chatVars, migVars, moreVars>>

\* the write of migrateNodeId() lands
RecMigrateWrite(i) ==
    /\ inv[i].ppc = "migw"
    /\ chatTimes' = inv[i].wall
    /\ inv' = [inv EXCEPT ![i] =
                  [@ EXCEPT !.ppc = "done", !.wall = EmptyStore, !.wrote = @ \cup {inv[i].migConv}]]
    /\ renderPending' = RenderCall(renderPending)
    /\ UNCHANGED <<now, clast, cprev, ccalls,
                   href, pendingRecord, rst, navs, domVars, idVars, starVars, migVars, restVars>>

\* the user opens another conversation: the url changes and reset() runs up
\* to its await of updateLastVisit(); the host replaces the turns on its own
Navigate(url) ==
    /\ navs < MaxNavigations
    /\ url # href
    /\ href' = url
    /\ pendingRecord' = NullArg
    /\ navs' = navs + 1
    /\ rst' = [rst EXCEPT ![navs + 1] = [pc |-> "read", conv |-> GetConversationKey(url),
                                          all |-> EmptyStore]]
    /\ UNCHANGED <<inv, domVars, idVars, starVars, chatVars, migVars, moreVars>>

\* reset(): updateLastVisit() reads and decides
ResetRead(n) ==
    /\ rst[n].pc = "read"
    /\ LET out == UpdateLastVisit(chatTimes, rst[n].conv, now)
       IN  rst' = [rst EXCEPT ![n] =
                     IF out.wrote THEN [@ EXCEPT !.pc = "write", !.all = out.all]
                     ELSE [@ EXCEPT !.pc = "done"]]
    /\ UNCHANGED <<href, pendingRecord, inv, navs, domVars, idVars, starVars, chatVars, migVars, moreVars>>

\* reset(): the write of updateLastVisit() lands
ResetWrite(n) ==
    /\ rst[n].pc = "write"
    /\ chatTimes' = rst[n].all
    /\ rst' = [rst EXCEPT ![n] = [@ EXCEPT !.pc = "done", !.all = EmptyStore]]
    /\ UNCHANGED <<now, clast, cprev, ccalls,
                   href, pendingRecord, inv, navs, domVars, idVars, starVars, migVars, moreVars>>

NextRec ==
    \/ NextHost
    \/ \E i \in Invs : RecStart(i)
    \/ \E i \in Invs : RecCheck(i)
    \/ \E i \in Invs : RecSetCreateTime(i)
    \/ \E i \in Invs : RecSetCreateTimeWrite(i)
    \/ \E i \in Invs : RecBatchSet(i)
    \/ \E i \in Invs : RecBatchSetWrite(i)
    \/ \E i \in Invs : RecTimer(i)
    \/ \E i \in Invs : RecMigrate(i)
    \/ \E i \in Invs : RecMigrateWrite(i)
    \/ \E url \in Urls : Navigate(url)
    \/ \E n \in Navs : ResetRead(n)
    \/ \E n \in Navs : ResetWrite(n)

\* the recorder in one conversation, with recordings that overlap an
\* earlier poll chain
NextPoll ==
    \/ NextHost
    \/ \E i \in Invs : RecStart(i)
    \/ \E i \in Invs : RecStartOverlapping(i)
    \/ \E i \in Invs : RecCheck(i)
    \/ \E i \in Invs : RecSetCreateTime(i)
    \/ \E i \in Invs : RecSetCreateTimeWrite(i)
    \/ \E i \in Invs : RecBatchSet(i)
    \/ \E i \in Invs : RecBatchSetWrite(i)
    \/ \E i \in Invs : RecTimer(i)
    \/ \E i \in Invs : RecMigrate(i)
    \/ \E i \in Invs : RecMigrateWrite(i)

----------------------------------------------------------------------------
(* AIStateMonitor, the events it dispatches, and the recorder's handlers   *)
(* of ai:stateChange (first recorder) and timeline:nodesChange (second)    *)

RecorderKinds == {"stateChange", "nodesChange"}

\* the entry of the event history for detail.generating
Ev(g) == IF g THEN "true" ELSE "false"

\* _checkState() that dispatches on every call
ShouldDispatchAlways(newState, gen) == TRUE

\* _checkState(): newState !== this._generating
ShouldDispatch(newState, gen) == newState # gen

\* stop(): the event it dispatches when _generating is set
StopEvents(gen) == IF gen THEN <<"false">> ELSE << >>

\* the recording the next event starts
IdleInvs == {i \in Invs : inv[i].rpc = "idle"}
FirstIdle == CHOOSE i \in IdleInvs : \A j \in IdleInvs : i <= j

\* the handlers that record on every event
RecordsAlways(g) == TRUE

\* the handlers record for event.detail?.generating (_onAIStateChange) and
\* for adapter.isAIGenerating() (_onNodesChange)
RecordsOn(g) == g

\* no listener acts
NoListener == UNCHANGED <<inv, nodeIdCache, now, renderPending, checks>>

\* the recorder's handler, for an event with this generating state:
\* _recordNewNodeTime() up to its await (it returns when no turn is in the
\* document), else _renderTimeLabels()
OnGenerating(g) ==
    IF RecordsOn(g)
    THEN /\ IF dom = << >> THEN UNCHANGED <<inv, nodeIdCache, now>>
            ELSE RecBeginCore(FirstIdle)
         /\ UNCHANGED renderPending
    ELSE /\ renderPending' = RenderCall(renderPending)
         /\ UNCHANGED <<inv, nodeIdCache, now>>

\* the recorder handles one more event; a handler that records has a
\* recording left to take
Handle(g) ==
    /\ checks < MaxHandled
    /\ checks' = checks + 1
    /\ (RecordsOn(g) /\ dom # << >>) => IdleInvs # {}
    /\ OnGenerating(g)

\* window.dispatchEvent(ai:stateChange): the first recorder listens
Dispatch(g) ==
    IF recorderKind = "stateChange" THEN Handle(g) ELSE NoListener

MonFrame ==
    UNCHANGED <<adapter, dom, attr, nextElem, hsteps, idVars, starVars,
                chatTimes, clast, cprev, ccalls, href, pendingRecord, rst, navs, migVars,
                loadVars, ioVars, treeVars, folderVars, textVars, impVars, provVars,
                aiGenerating, recorderKind, labelVisible, labels>>

\* the host shows or hides its stop button
AIToggle ==
    /\ aiGenerating' = ~aiGenerating
    /\ UNCHANGED <<monRunning, generating, events, checks, recorderKind, labelVisible,
                   labels, renderPending, starVars, chatVars, domVars, idVars, recVars,
                   migVars, loadVars, ioVars, treeVars, folderVars, textVars, impVars,
                   provVars>>

\* AIStateMonitor.start(adapter); start() of an adapter without
\* isAIGenerating returns at once
StartMonitor(valid) ==
    /\ IF ~valid
       THEN /\ UNCHANGED <<monRunning, generating, events>>
            /\ NoListener
       ELSE /\ Len(events) + Len(StopEvents(generating)) + 2 <= MaxEvents
            /\ monRunning' = TRUE
            /\ generating' = FALSE
            /\ events' = events \o StopEvents(generating) \o <<"stop", "start">>
            /\ IF generating THEN Dispatch(FALSE) ELSE NoListener
    /\ MonFrame

\* AIStateMonitor.stop()
StopMonitor ==
    /\ Len(events) + Len(StopEvents(generating)) + 1 <= MaxEvents
    /\ monRunning' = FALSE
    /\ generating' = FALSE
    /\ events' = events \o StopEvents(generating) \o <<"stop">>
    /\ IF generating THEN Dispatch(FALSE) ELSE NoListener
    /\ MonFrame

\* the debounced callback of the body observer: _checkState(); a callback
\* that was pending when stop() ran finds no adapter
CheckState ==
    /\ IF monRunning /\ ShouldDispatch(aiGenerating, generating)
       THEN /\ Len(events) < MaxEvents
            /\ generating' = aiGenerating
            /\ events' = Append(events, Ev(aiGenerating))
            /\ Dispatch(aiGenerating)
            /\ UNCHANGED monRunning
       ELSE /\ UNCHANGED <<monRunning, generating, events>>
            /\ NoListener
    /\ MonFrame

\* timeline:nodesChange reaches the second recorder: _onNodesChange() up to
\* its await (chatTimesShowOn is 'immediate')
NodesChange ==
    /\ recorderKind = "nodesChange"
    /\ IF dom = << >> THEN NoListener
       ELSE Handle(aiGenerating)
    /\ UNCHANGED <<monRunning, generating, events>>
    /\ MonFrame

\* data-ait-time after the forEach of _renderTimeLabels(): the stored time of
\* each element's turn id, where one is stored (the label shows that time)
LabelsAfter(shown, els, nodes) ==
    [e \in Elems |->
        IF \E i \in 1..Len(els) : els[i] = e /\ TurnIds(els)[i] \in DOMAIN nodes
        THEN nodes[TurnIds(els)[CHOOSE i \in 1..Len(els) : els[i] = e]]
        ELSE shown[e]]

\* renders in flight: one per event handled, and per recording one after
\* batchSetNodeTimes() and one after migrateNodeId()
MaxRenders == MaxHandled + 2 * MaxInvocations

\* the read of render k returns and the labels are set
RenderLabels(k) ==
    /\ k \in 1..Len(renderPending)
    /\ LET r == renderPending[k]
       IN  /\ labels' = LabelsAfter(labels, r.els, GetByConversation(chatTimes, r.conv).nodes)
           /\ nodeIdCache' = CacheAfterAll(nodeIdCache, r.els)
    /\ renderPending' = SubSeq(renderPending, 1, k - 1)
                           \o SubSeq(renderPending, k + 1, Len(renderPending))
    /\ UNCHANGED <<monRunning, generating, aiGenerating, events, checks, recorderKind,
                   labelVisible, adapter, dom, attr, nextElem, hsteps, idVars, starVars,
                   chatVars, recVars, migVars, loadVars, ioVars, treeVars, folderVars,
                   textVars, impVars, provVars>>

\* the first recorder with the monitor (started, until it is stopped), or
\* the second recorder with the node events, on a host that gives a turn its message id when it shows
\* it: no recording waits for an id (the polling and the migration are in
\* NextRec and NextPoll)
NextMon ==
    \/ \E v \in AttrValues : HostAppend(v)
    \/ AIToggle
    \/ recorderKind = "stateChange" /\ StopMonitor
    \/ recorderKind = "stateChange" /\ CheckState
    \/ NodesChange
    \/ \E i \in Invs : RecCheck(i)
    \/ \E i \in Invs : RecSetCreateTime(i)
    \/ \E i \in Invs : RecSetCreateTimeWrite(i)
    \/ \E i \in Invs : RecBatchSet(i)
    \/ \E i \in Invs : RecBatchSetWrite(i)
    \/ \E k \in 1..MaxRenders : RenderLabels(k)

\* the monitor on a page whose recorder is not enabled
NextMonitor ==
    \/ AIToggle
    \/ \E valid \in BOOLEAN : StartMonitor(valid)
    \/ StopMonitor
    \/ CheckState

----------------------------------------------------------------------------
(* The migrations run when the script loads: chrome.storage.sync to
   chrome.storage.local, legacy per-record star / pin keys to arrays, and
   renamed local keys *)

Loads == 1..MaxLoads

\* a key that is not stored, an undefined field, a number
Absent == [absent |-> TRUE]
Undefined == [undefined |-> TRUE]
Num(n) == [num |-> n]

\* stored values: plain data, an array of records
Val(n) == [val |-> n]
Arr(items) == [items |-> items]
IsArr(v) == "items" \in DOMAIN v

\* storage keys, as the pieces of their names
StarPrefix == <<"chatTimelineStar:">>
PinPrefix == <<"chatTimelinePin:">>
LegacyStar1 == StarPrefix \o <<"u", ":", "1">>
LegacyStar2 == StarPrefix \o <<"u", ":", "2">>
LegacyPin1 == PinPrefix \o <<"u", ":", "1">>
AitStars == <<"aitStars">>
AitPins == <<"aitPins">>
ChatTimelineStars == <<"chatTimelineStars">>
ChatTimelinePins == <<"chatTimelinePins">>
Biwhckdj == <<"biwhckdj">>
Prompts == <<"prompts">>

\* Object.keys(items): the stored keys in a fixed order
KeyOrder == <<LegacyStar1, LegacyStar2, LegacyPin1, AitStars, AitPins,
              ChatTimelineStars, ChatTimelinePins, Biwhckdj, Prompts>>
MigKeys == {KeyOrder[i] : i \in 1..Len(KeyOrder)}

NoItems == [k \in MigKeys |-> Absent]

RECURSIVE KeysFrom(_, _)
KeysFrom(items, i) ==
    IF i > Len(KeyOrder) THEN << >>
    ELSE IF items[KeyOrder[i]] # Absent
         THEN <<KeyOrder[i]>> \o KeysFrom(items, i + 1)
         ELSE KeysFrom(items, i + 1)

ObjectKeys(items) == KeysFrom(items, 1)

\* Object.keys(items).filter(k => k.startsWith(prefix))
RECURSIVE KeysWithPrefix(_, _)
KeysWithPrefix(keys, prefix) ==
    IF keys = << >> THEN << >>
    ELSE IF StartsWith(Head(keys), prefix)
         THEN <<Head(keys)>> \o KeysWithPrefix(Tail(keys), prefix)
         ELSE KeysWithPrefix(Tail(keys), prefix)

\* chrome.storage.local.set(data): the keys of data are written, the others kept
SetItems(area, data) ==
    [k \in MigKeys |-> IF data[k] # Absent THEN data[k] ELSE area[k]]

\* chrome.storage.local.remove(keys)
RemoveItems(area, keys) ==
    [k \in MigKeys |-> IF \E i \in 1..Len(keys) : keys[i] = k THEN Absent ELSE area[k]]

\* a ?? b
Coalesce(a, b) == IF a = Undefined THEN b ELSE a

\* `${nodeId}`
ToStr(nodeId) ==
    IF nodeId = Undefined THEN <<"undefined">> ELSE NatToStr(nodeId.num)

\* StarPinStorage._makeId
MakeId(urlWithoutProtocol, nodeId) == urlWithoutProtocol \o <<":">> \o ToStr(nodeId)

\* this._makeId(s.urlWithoutProtocol, s.nodeId ?? s.index)
RecId(s) == MakeId(s.urlWithoutProtocol, Coalesce(s.nodeId, s.index))

\* the record migrateFromLegacy() builds from a legacy item
FromLegacy(item, nodeId, t) ==
    [urlWithoutProtocol |-> item.urlWithoutProtocol,
     nodeId |-> nodeId,
     index |-> Undefined,
     timestamp |-> IF item.timestamp = 0 THEN t ELSE item.timestamp]

\* forEach over the legacy keys that pushes every item
RECURSIVE MergeLegacyPushAll(_, _, _, _)
MergeLegacyPushAll(keys, allItems, acc, t) ==
    IF keys = << >> THEN acc
    ELSE LET item == allItems[Head(keys)]
             nodeId == Coalesce(item.nodeId, item.index)
         IN  IF item.urlWithoutProtocol = EmptyStr
             THEN MergeLegacyPushAll(Tail(keys), allItems, acc, t)
             ELSE MergeLegacyPushAll(Tail(keys), allItems,
                                     Append(acc, FromLegacy(item, nodeId, t)), t)

\* migrateFromLegacy(): starKeys.forEach(...) / pinKeys.forEach(...); acc is
\* newStars, whose ids are existingIds
RECURSIVE MergeLegacy(_, _, _, _)
MergeLegacy(keys, allItems, acc, t) ==
    IF keys = << >> THEN acc
    ELSE LET item == allItems[Head(keys)]
             nodeId == Coalesce(item.nodeId, item.index)
             id == MakeId(item.urlWithoutProtocol, nodeId)
             existingIds == {RecId(acc[i]) : i \in 1..Len(acc)}
         IN  IF item.urlWithoutProtocol = EmptyStr
             THEN MergeLegacy(Tail(keys), allItems, acc, t)
             ELSE IF id \notin existingIds
             THEN MergeLegacy(Tail(keys), allItems,
                              Append(acc, FromLegacy(item, nodeId, t)), t)
             ELSE MergeLegacy(Tail(keys), allItems, acc, t)

\* getAllStars() / getAllPins(): Array.isArray(data) ? data : []
GetAll(area, arrayKey) ==
    IF IsArr(area[arrayKey]) THEN area[arrayKey].items ELSE << >>

\* { key, ...value } for every key with the prefix (second StorageAdapter)
RECURSIVE WithKey(_, _)
WithKey(keys, syncData) ==
    IF keys = << >> THEN << >>
    ELSE <<[key |-> Head(keys), value |-> syncData[Head(keys)]]>>
            \o WithKey(Tail(keys), syncData)

\* second StorageAdapter.migrateFromSyncToLocal(): newLocalData
NewLocalData(syncData) ==
    LET syncKeys == ObjectKeys(syncData)
        starItems == WithKey(KeysWithPrefix(syncKeys, StarPrefix), syncData)
        pinItems == WithKey(KeysWithPrefix(syncKeys, PinPrefix), syncData)
    IN  [k \in MigKeys |->
            IF StartsWith(k, StarPrefix) \/ StartsWith(k, PinPrefix) THEN Absent
            ELSE IF k = ChatTimelineStars /\ starItems # << >> THEN Arr(starItems)
            ELSE IF k = ChatTimelinePins /\ pinItems # << >> THEN Arr(pinItems)
            ELSE syncData[k]]

\* first StorageAdapter.migrateFromSyncToLocal(): syncData is copied as read
CopyData(syncData) == syncData

\* what a scope migration writes to local
LocalData(op, syncData) ==
    IF op = "syncToLocalKeyed" THEN NewLocalData(syncData) ELSE CopyData(syncData)

\* the migrations: both StorageAdapter.migrateFromSyncToLocal(),
\* StarPinStorage.migrateFromLegacy(), StorageAdapter.migrateLocalKeys()
MigOps == {"syncToLocal", "syncToLocalKeyed", "legacy", "localKeys"}

\* what a load runs: "syncToLocal" is the first script (migrateFromSyncToLocal(),
\* then migrateFromLegacy()), "syncToLocalKeyed" the second (migrateFromSyncToLocal(),
\* which begins with migrateLocalKeys())
LoadOps == {"syncToLocal", "syncToLocalKeyed"}

NoMig == [op |-> "none", pc |-> "idle", data |-> NoItems, existing |-> << >>]

Migrating(i) == mig[i].pc \notin {"idle", "over"}

\* a migration moves on; once it has returned or was cut off ("over") nothing
\* of the call is left
Goto(m, pc, data, existing) ==
    IF pc = "over" THEN [NoMig EXCEPT !.pc = "over"]
    ELSE [m EXCEPT !.pc = pc, !.data = data, !.existing = existing]

Move(m, pc) == Goto(m, pc, m.data, m.existing)

MigFrame == UNCHANGED <<starVars, chatVars, domVars, idVars, recVars, moreVars>>

\* the script is loaded and calls a migration; at most two loads (two pages)
\* run their migrations at the same time
MigStart(i, op) ==
    /\ mig[i].pc = "idle"
    /\ \A j \in Loads : j < i => mig[j].pc # "idle"
    /\ \A j, k \in Loads : (Migrating(j) /\ Migrating(k)) => j = k
    /\ mig' = [mig EXCEPT ![i].op = op,
                          ![i].pc = IF op = "syncToLocal" THEN "syncRead" ELSE "lkRead"]
    /\ UNCHANGED <<syncArea, localArea, copied>>
    /\ MigFrame

\* migrateLocalKeys(): chrome.storage.local.get(['biwhckdj', 'prompts'])
LocalKeysRead(i) ==
    /\ mig[i].pc = "lkRead"
    /\ LET biwhckdj == localArea[Biwhckdj] # Absent
           prompts == localArea[Prompts] # Absent
           next == IF biwhckdj /\ ~prompts THEN "lkSet"
                   ELSE IF biwhckdj /\ prompts THEN "lkRemove"
                   ELSE "syncRead"
       IN  mig' = [mig EXCEPT ![i] = Goto(@, next,
                                          [NoItems EXCEPT ![Biwhckdj] = localArea[Biwhckdj]],
                                          << >>)]
    /\ UNCHANGED <<syncArea, localArea, copied>>
    /\ MigFrame

\* chrome.storage.local.set({ prompts: result.biwhckdj })
LocalKeysSet(i) ==
    /\ mig[i].pc = "lkSet"
    /\ localArea' = [localArea EXCEPT ![Prompts] = mig[i].data[Biwhckdj]]
    /\ mig' = [mig EXCEPT ![i].pc = "lkRemove"]
    /\ UNCHANGED <<syncArea, copied>>
    /\ MigFrame

\* chrome.storage.local.remove('biwhckdj')
LocalKeysRemove(i) ==
    /\ mig[i].pc = "lkRemove"
    /\ localArea' = RemoveItems(localArea, <<Biwhckdj>>)
    /\ mig' = [mig EXCEPT ![i] = Move(@, "syncRead")]
    /\ UNCHANGED <<syncArea, copied>>
    /\ MigFrame

\* after migrateFromSyncToLocal(): the first script goes on with
\* `await StarPinStorage.migrateFromLegacy()`, the second has nothing left
AfterScope(op) == IF op = "syncToLocal" THEN "lgRead" ELSE "over"

\* migrateFromSyncToLocal(): chrome.storage.sync.get(null)
SyncRead(i) ==
    /\ mig[i].pc = "syncRead"
    /\ mig' = [mig EXCEPT ![i] = IF ObjectKeys(syncArea) = << >>
                                 THEN Goto(@, AfterScope(mig[i].op), NoItems, << >>)
                                 ELSE Goto(@, "localSet", syncArea, << >>)]
    /\ UNCHANGED <<syncArea, localArea, copied>>
    /\ MigFrame

\* chrome.storage.local.set(syncData) / chrome.storage.local.set(newLocalData)
LocalSet(i) ==
    /\ mig[i].pc = "localSet"
    /\ LET data == LocalData(mig[i].op, mig[i].data)
       IN  /\ localArea' = SetItems(localArea, data)
           /\ copied' = copied \cup {k \in MigKeys : data[k] # Absent}
    /\ mig' = [mig EXCEPT ![i].pc = "syncClear"]
    /\ UNCHANGED syncArea
    /\ MigFrame

\* chrome.storage.sync.clear()
SyncClear(i) ==
    /\ mig[i].pc = "syncClear"
    /\ syncArea' = NoItems
    /\ mig' = [mig EXCEPT ![i] = Goto(@, AfterScope(mig[i].op), NoItems, << >>)]
    /\ UNCHANGED <<localArea, copied>>
    /\ MigFrame

\* migrateFromLegacy(): chrome.storage.local.get(null)
LegacyRead(i) ==
    /\ mig[i].pc = "lgRead"
    /\ LET allKeys == ObjectKeys(localArea)
           starKeys == KeysWithPrefix(allKeys, StarPrefix)
           pinKeys == KeysWithPrefix(allKeys, PinPrefix)
           next == IF starKeys = << >> /\ pinKeys = << >> THEN "over"
                   ELSE IF starKeys # << >> THEN "lgGetStars"
                   ELSE "lgGetPins"
       IN  mig' = [mig EXCEPT ![i] = Goto(@, next, localArea, << >>)]
    /\ UNCHANGED <<syncArea, localArea, copied>>
    /\ MigFrame

\* the legacy keys of a family in the snapshot the migration took
LegacyKeys(i, prefix) == KeysWithPrefix(ObjectKeys(mig[i].data), prefix)

\* const existingStars = await this.getAllStars()
LegacyGetStars(i) ==
    /\ mig[i].pc = "lgGetStars"
    /\ mig' = [mig EXCEPT ![i].existing = GetAll(localArea, AitStars),
                          ![i].pc = "lgSaveStars"]
    /\ UNCHANGED <<syncArea, localArea, copied>>
    /\ MigFrame

\* await this._saveAllStars(newStars)
LegacySaveStars(i) ==
    /\ mig[i].pc = "lgSaveStars"
    /\ localArea' = [localArea EXCEPT ![AitStars] =
                        Arr(MergeLegacy(LegacyKeys(i, StarPrefix), mig[i].data,
                                        mig[i].existing, now))]
    /\ mig' = [mig EXCEPT ![i].pc = IF LegacyKeys(i, PinPrefix) # << >> THEN "lgGetPins"
                                    ELSE "lgRemove"]
    /\ UNCHANGED <<syncArea, copied>>
    /\ MigFrame

\* const existingPins = await this.getAllPins()
LegacyGetPins(i) ==
    /\ mig[i].pc = "lgGetPins"
    /\ mig' = [mig EXCEPT ![i].existing = GetAll(localArea, AitPins),
                          ![i].pc = "lgSavePins"]
    /\ UNCHANGED <<syncArea, localArea, copied>>
    /\ MigFrame

\* await this._saveAllPins(newPins)
LegacySavePins(i) ==
    /\ mig[i].pc = "lgSavePins"
    /\ localArea' = [localArea EXCEPT ![AitPins] =
                        Arr(MergeLegacy(LegacyKeys(i, PinPrefix), mig[i].data,
                                        mig[i].existing, now))]
    /\ mig' = [mig EXCEPT ![i].pc = "lgRemove"]
    /\ UNCHANGED <<syncArea, copied>>
    /\ MigFrame

\* chrome.storage.local.remove(keysToRemove)
LegacyRemove(i) ==
    /\ mig[i].pc = "lgRemove"
    /\ localArea' = RemoveItems(localArea,
                                LegacyKeys(i, StarPrefix) \o LegacyKeys(i, PinPrefix))
    /\ mig' = [mig EXCEPT ![i] = Move(@, "over")]
    /\ UNCHANGED <<syncArea, copied>>
    /\ MigFrame

\* the page is closed while a migration is waiting for a storage callback
Interrupt(i) ==
    /\ Migrating(i)
    /\ mig' = [mig EXCEPT ![i] = Move(@, "over")]
    /\ UNCHANGED <<syncArea, localArea, copied>>
    /\ MigFrame

\* the user saves changed prompts: StorageAdapter.set('prompts', value)
UserSetPrompts(v) ==
    /\ localArea[Prompts] # Val(v)
    /\ localArea' = [localArea EXCEPT ![Prompts] = Val(v)]
    /\ UNCHANGED <<syncArea, mig, copied>>
    /\ MigFrame

PromptValues == {2}

NextMig ==
    \/ \E i \in Loads, op \in LoadOps : MigStart(i, op)
    \/ \E i \in Loads : LocalKeysRead(i)
    \/ \E i \in Loads : LocalKeysSet(i)
    \/ \E i \in Loads : LocalKeysRemove(i)
    \/ \E i \in Loads : SyncRead(i)
    \/ \E i \in Loads : LocalSet(i)
    \/ \E i \in Loads : SyncClear(i)
    \/ \E i \in Loads : LegacyRead(i)
    \/ \E i \in Loads : LegacyGetStars(i)
    \/ \E i \in Loads : LegacySaveStars(i)
    \/ \E i \in Loads : LegacyGetPins(i)
    \/ \E i \in Loads : LegacySavePins(i)
    \/ \E i \in Loads : LegacyRemove(i)
    \/ \E i \in Loads : Interrupt(i)
    \/ \E v \in PromptValues : UserSetPrompts(v)

\* ---- each migration run alone from its call to its return

Areas(sync, local) == [sync |-> sync, local |-> local]

\* migrateLocalKeys()
RunLocalKeys(s) ==
    LET biwhckdj == s.local[Biwhckdj] # Absent
        prompts == s.local[Prompts] # Absent
    IN  IF biwhckdj /\ ~prompts
        THEN Areas(s.sync, RemoveItems([s.local EXCEPT ![Prompts] = s.local[Biwhckdj]],
                                       <<Biwhckdj>>))
        ELSE IF biwhckdj /\ prompts
        THEN Areas(s.sync, RemoveItems(s.local, <<Biwhckdj>>))
        ELSE s

\* migrateFromSyncToLocal() from the read of sync on
RunScope(op, s) ==
    IF ObjectKeys(s.sync) = << >> THEN s
    ELSE Areas(NoItems, SetItems(s.local, LocalData(op, s.sync)))

\* migrateFromLegacy()
RunLegacy(s, t) ==
    LET allKeys == ObjectKeys(s.local)
        starKeys == KeysWithPrefix(allKeys, StarPrefix)
        pinKeys == KeysWithPrefix(allKeys, PinPrefix)
        stars == IF starKeys = << >> THEN s.local
                 ELSE [s.local EXCEPT ![AitStars] =
                          Arr(MergeLegacy(starKeys, s.local, GetAll(s.local, AitStars), t))]
        pins == IF pinKeys = << >> THEN stars
                ELSE [stars EXCEPT ![AitPins] =
                         Arr(MergeLegacy(pinKeys, s.local, GetAll(stars, AitPins), t))]
    IN  IF starKeys = << >> /\ pinKeys = << >> THEN s
        ELSE Areas(s.sync, RemoveItems(pins, starKeys \o pinKeys))

RunMigration(op, s, t) ==
    CASE op = "legacy" -> RunLegacy(s, t)
      [] op = "localKeys" -> RunLocalKeys(s)
      [] op = "syncToLocal" -> RunScope(op, s)
      [] op = "syncToLocalKeyed" -> RunScope(op, RunLocalKeys(s))

----------------------------------------------------------------------------
(* What a script does when it loads: the first script awaits its two        *)
(* migrations and calls no store; the second calls migrateFromSyncToLocal() *)
(* without awaiting it and, in the same turn, ChatTimeStorageManager         *)
(* .cleanup(30).                                                             *)

\* no cleanup call; pc: "none", "get" (getAllRecords() pending), "set"
\* (StorageAdapter.set pending), "over"; all: the object cleanup() writes
NoAccess == [pc |-> "none", all |-> [c \in Convs |-> NoRec]]

\* the script is loaded: the migration runs up to its first await; the second
\* script then calls cleanup(30), which runs up to the await of its read
LoadScript(i, op) ==
    /\ mig[i].pc = "idle"
    /\ \A j \in Loads : j < i => mig[j].pc # "idle"
    /\ \A j, k \in Loads : (Migrating(j) /\ Migrating(k)) => j = k
    /\ mig' = [mig EXCEPT ![i].op = op,
                          ![i].pc = IF op = "syncToLocal" THEN "syncRead" ELSE "lkRead"]
    /\ loadCall' = [loadCall EXCEPT ![i].pc = IF op = "syncToLocalKeyed" THEN "get" ELSE @]
    /\ UNCHANGED <<syncArea, localArea, copied>>
    /\ UNCHANGED <<starVars, chatVars, domVars, idVars, recVars, ioVars, treeVars, folderVars, lateVars>>

\* cleanup(): getAllRecords() delivers the stored object; the expired records
\* are deleted from it and it is written back when there was one
CleanupGet(i) ==
    /\ loadCall[i].pc = "get"
    /\ LET out == Cleanup(chatTimes, MaxInactiveDays, now)
       IN  loadCall' = [loadCall EXCEPT ![i] = [pc |-> IF out.ret > 0 THEN "set" ELSE "over",
                                      all |-> out.all]]
    /\ UNCHANGED <<starVars, chatVars, domVars, idVars, recVars, migVars, ioVars, treeVars, folderVars, lateVars>>

\* cleanup(): StorageAdapter.set(STORAGE_KEY, all) lands
CleanupSet(i) ==
    /\ loadCall[i].pc = "set"
    /\ chatTimes' = loadCall[i].all
    /\ loadCall' = [loadCall EXCEPT ![i] = [NoAccess EXCEPT !.pc = "over"]]
    /\ UNCHANGED <<now, clast, cprev, ccalls, starVars, domVars, idVars, recVars, migVars, ioVars, treeVars, folderVars, lateVars>>

NextLoad ==
    \/ \E i \in Loads, op \in LoadOps : LoadScript(i, op)
    \/ \E i \in Loads : CleanupGet(i)
    \/ \E i \in Loads : CleanupSet(i)
    \/ \E i \in Loads : LocalKeysRead(i)
    \/ \E i \in Loads : LocalKeysSet(i)
    \/ \E i \in Loads : LocalKeysRemove(i)
    \/ \E i \in Loads : SyncRead(i)
    \/ \E i \in Loads : LocalSet(i)
    \/ \E i \in Loads : SyncClear(i)
    \/ \E i \in Loads : LegacyRead(i)
    \/ \E i \in Loads : LegacyGetStars(i)
    \/ \E i \in Loads : LegacySaveStars(i)
    \/ \E i \in Loads : LegacyGetPins(i)
    \/ \E i \in Loads : LegacySavePins(i)
    \/ \E i \in Loads : LegacyRemove(i)

----------------------------------------------------------------------------
(* StorageAdapter.get / set and StarStorageManager.getAll / add when a call *)
(* of the backend fails. A failing chrome.storage call either throws at the *)
(* call (invalidated extension context) or runs its callback with           *)
(* chrome.runtime.lastError set (quota); a failing localStorage call        *)
(* throws (quota, JSON.parse, JSON.stringify).                              *)

Backends == {"chrome", "localStorage"}
IoFailures == {"none", "lastError", "throws"}

\* the failures a read and a write of a backend have: lastError is chrome's
\* report of a failed write
ReadFailures(b) == {"none", "throws"}
WriteFailures(b) == IF b = "chrome" THEN IoFailures ELSE {"none", "throws"}

\* how an awaited call ends: rejected (the exception reaches the caller) or
\* fulfilled with a value; stored is what the backend holds afterwards
Settled(rejected, value, stored) ==
    [rejected |-> rejected, value |-> value, stored |-> stored]

\* StorageAdapter.get(key). chrome: the promise is returned, not awaited, so a
\* throw inside the executor rejects it past the catch; localStorage: a throw
\* is caught and undefined returned
StorageGet(b, fail, stored) ==
    IF b = "chrome"
    THEN IF fail = "throws" THEN Settled(TRUE, Undefined, stored)
         ELSE Settled(FALSE, stored, stored)
    ELSE IF fail = "throws" THEN Settled(FALSE, Undefined, stored)
         ELSE Settled(FALSE, stored, stored)

\* StorageAdapter.set(key, value): as get; with lastError the callback
\* resolves and nothing has been stored
StorageSet(b, fail, stored, value) ==
    IF b = "chrome"
    THEN CASE fail = "throws" -> Settled(TRUE, Undefined, stored)
           [] fail = "lastError" -> Settled(FALSE, Undefined, stored)
           [] OTHER -> Settled(FALSE, Undefined, value)
    ELSE IF fail = "throws" THEN Settled(FALSE, Undefined, stored)
         ELSE Settled(FALSE, Undefined, value)

\* StarStorageManager.getAll(): Array.isArray(data) ? data : []
StarGetAll(b, fail, stored) ==
    LET got == StorageGet(b, fail, stored)
    IN  IF got.rejected THEN got
        ELSE Settled(FALSE, IF IsArr(got.value) THEN got.value ELSE Arr(<< >>), stored)

\* StarStorageManager.add(item) past its argument check: getAll(), replace or
\* push, StorageAdapter.set
StarAddStored(b, failGet, failSet, stored, item) ==
    LET got == StarGetAll(b, failGet, stored)
    IN  IF got.rejected THEN got
        ELSE StorageSet(b, failSet, stored, Arr(StarAdd(got.value.items, item)))

NoIo == [kind |-> "none", failed |-> FALSE, rejected |-> FALSE, value |-> Undefined,
         before |-> Undefined, after |-> Undefined]

\* a store call has run to its end
IoDone(kind, failed, out) ==
    /\ ioCalls < MaxIoCalls
    /\ ioCalls' = ioCalls + 1
    /\ ioStore' = out.stored
    /\ ioLast' = [kind |-> kind, failed |-> failed, rejected |-> out.rejected,
                  value |-> out.value, before |-> ioStore, after |-> out.stored]
    /\ UNCHANGED <<backend, starVars, chatVars, domVars, idVars, recVars, migVars, loadVars, treeVars, folderVars, lateVars>>

\* a caller awaits StarStorageManager.getAll()
CallGetAll(fail) ==
    /\ fail \in ReadFailures(backend)
    /\ IoDone("getAll", fail # "none", StarGetAll(backend, fail, ioStore))

\* a caller awaits StarStorageManager.add(item)
CallAdd(item, failGet, failSet) ==
    /\ ~StarEarlyReturn([kind |-> "add", key |-> EmptyKey, item |-> item, updates |-> NullArg])
    /\ failGet \in ReadFailures(backend)
    /\ failSet \in WriteFailures(backend)
    /\ IoDone("add", failGet # "none" \/ failSet # "none",
              StarAddStored(backend, failGet, failSet, ioStore, item))

NextIo ==
    \/ \E fail \in IoFailures : CallGetAll(fail)
    \/ \E item \in StarItems, failGet, failSet \in IoFailures :
          CallAdd(item, failGet, failSet)

----------------------------------------------------------------------------
(* The conversation container. The adapters hand the first message and      *)
(* their message selector to ContainerFinder.findConversationContainer,     *)
(* which collects the ancestor path (root to element) of every matched      *)
(* element, takes the longest common prefix of the paths and returns its    *)
(* last node. The document is a tree whose nodes are numbered in document   *)
(* order.                                                                   *)

TreeNodes == 1..MaxNodes
DocRoot == 1
NoNode == 0
Kinds == {"user", "assistant", "other"}

\* the nodes root .. n on the way down to n
RECURSIVE PathTo(_, _)
PathTo(p, n) == IF n = NoNode THEN << >> ELSE Append(PathTo(p, p[n]), n)

\* parent functions of the documents: node 1 is the root, and the parent of
\* every later node lies on the path to the node before it (document order)
Documents ==
    {p \in [TreeNodes -> {NoNode} \cup TreeNodes] :
        /\ p[DocRoot] = NoNode
        /\ \A n \in TreeNodes \ {DocRoot} : p[n] # NoNode /\ p[n] < n
        /\ \A n \in TreeNodes \ {DocRoot} :
              \E k \in 1..Len(PathTo(p, n - 1)) : PathTo(p, n - 1)[k] = p[n]}

\* a selector is the set of element kinds it matches: the adapters' selector
\* matches the user messages
AnyMessageSelector == {"user", "assistant"}
GetUserMessageSelector == {"user"}

\* document.querySelectorAll(selector): the matching elements in document order
QuerySelectorAll(selector) ==
    LET Matches(n) == kindOf[n] \in selector
    IN  SelectSeq([n \in TreeNodes |-> n], Matches)

\* document.querySelector(selector): the first match or null
QuerySelector(selector) ==
    IF QuerySelectorAll(selector) = << >> THEN NoNode
    ELSE Head(QuerySelectorAll(selector))

\* the ancestor path of an element: root .. its parent
AncestorPath(e) == PathTo(parentOf, parentOf[e])

\* the longest common prefix of two paths
RECURSIVE CommonPrefix(_, _)
CommonPrefix(a, b) ==
    IF a = << >> \/ b = << >> THEN << >>
    ELSE IF Head(a) # Head(b) THEN << >>
    ELSE <<Head(a)>> \o CommonPrefix(Tail(a), Tail(b))

\* the longest common prefix of the ancestor paths of the elements
RECURSIVE CommonPath(_)
CommonPath(elements) ==
    IF Len(elements) = 1 THEN AncestorPath(Head(elements))
    ELSE CommonPrefix(AncestorPath(Head(elements)), CommonPath(Tail(elements)))

\* ContainerFinder.findConversationContainer(firstMessage, { messageSelector })
ContainerFinder(firstMessage, messageSelector) ==
    LET elements == QuerySelectorAll(messageSelector)
    IN  IF elements = << >> THEN NoNode
        ELSE IF CommonPath(elements) = << >> THEN NoNode
        ELSE CommonPath(elements)[Len(CommonPath(elements))]

\* the upward walk from the first message alone: its parent
FindConversationContainerFirstOnly(firstMessage, messageSelector) ==
    IF firstMessage = NoNode THEN NoNode ELSE parentOf[firstMessage]

\* the upward walk that never stops: the outermost element
FindConversationContainerOutermost(firstMessage, messageSelector) ==
    IF firstMessage = NoNode THEN NoNode ELSE DocRoot

\* adapter.findConversationContainer(firstMessage)
FindConversationContainer(firstMessage, messageSelector) ==
    ContainerFinder(firstMessage, messageSelector)

\* the timeline asks the adapter for the container of the current document
LocateContainer ==
    /\ ~located
    /\ located' = TRUE
    /\ container' = FindConversationContainer(QuerySelector(GetUserMessageSelector),
                                              GetUserMessageSelector)
    /\ UNCHANGED <<parentOf, kindOf>>
    /\ UNCHANGED <<starVars, chatVars, domVars, idVars, recVars, migVars, loadVars, ioVars, folderVars, lateVars>>

NextTree == LocateContainer

----------------------------------------------------------------------------
(* The folders of the starred tab. handleCreateFolder, handleEditFolder and  *)
(* handleDeleteFolder run up to each await; FolderManager reads the stored   *)
(* folders, checks, and writes the whole array back.                        *)

Requests == 1..MaxRequests
FolderNames == {"a", "b"}
AllFolderIds == <<"f1", "f2", "f3", "f4", "f5">>
FolderIdSet == {AllFolderIds[n] : n \in 1..MaxFolderCalls}

Folder(id, name, parentId) == [id |-> id, name |-> name, parentId |-> parentId]

\* the ids of the stored folders
FolderIdsOf(fs) == {f.id : f \in fs}

NoReq == [kind |-> "none", pc |-> "idle", name |-> "", parentId |-> NoFolder,
          folderId |-> NoFolder, snap |-> {}, items |-> << >>, doomed |-> {}]

\* FolderManager.isFolderNameExists(name, parentId, excludeId)
IsFolderNameExists(fs, name, parentId, excludeId) ==
    \E f \in fs : f.name = name /\ f.parentId = parentId /\ f.id # excludeId

\* createFolder() refuses a third level
DepthExceeded(fs, parentId) ==
    \E parent \in fs : parent.id = parentId /\ parent.parentId # NoFolder

\* createFolder() without the depth rule
CreateFolderRejectsNoDepth(fs, name, parentId) ==
    IsFolderNameExists(fs, name, parentId, NoFolder)

\* createFolder() without the name rule
CreateFolderRejectsNoName(fs, name, parentId) ==
    DepthExceeded(fs, parentId)

\* FolderManager.createFolder(name, parentId): the checks before the write
CreateFolderRejects(fs, name, parentId) ==
    DepthExceeded(fs, parentId) \/ IsFolderNameExists(fs, name, parentId, NoFolder)

\* FolderManager.updateFolder(folderId, name): the array written back
UpdateFolder(fs, folderId, name) ==
    {IF f.id = folderId THEN [f EXCEPT !.name = name] ELSE f : f \in fs}

\* FolderManager.deleteFolder(folderId, moveTo): the folder and its children
Doomed(fs, folderId) == {folderId} \cup {c.id : c \in {f \in fs : f.parentId = folderId}}

\* the updateFn deleteFolder() hands to StarStorageManager.batchUpdate
Detach(items, doomed, moveTo) ==
    [i \in DOMAIN items |->
        IF items[i].folderId \in doomed THEN [items[i] EXCEPT !.folderId = moveTo]
        ELSE items[i]]

\* a handler returns: its locals are dropped
ReqOver(r) == freq' = [freq EXCEPT ![r] = NoReq]

FolderFrame ==
    UNCHANGED <<starVars, chatVars, domVars, idVars, recVars, migVars, loadVars, ioVars, treeVars, lateVars>>

\* handleCreateFolder(parentId) up to the name check: the user has typed a name
StartCreate(r, parentId, name) ==
    /\ freq[r].pc = "idle"
    /\ \A q \in Requests : q < r => freq[q].pc # "idle"
    /\ parentId \in FolderIdsOf(folders) \cup {NoFolder}
    /\ freq' = [freq EXCEPT ![r] = [NoReq EXCEPT !.kind = "create", !.pc = "createCheck",
                                                 !.name = name, !.parentId = parentId]]
    /\ fcalls < MaxFolderCalls
    /\ fcalls' = fcalls + 1
    /\ UNCHANGED <<folders, nextFolder>>
    /\ FolderFrame

\* handleCreateFolder: exists = await isFolderNameExists(name, parentId)
CreateCheck(r) ==
    /\ freq[r].pc = "createCheck"
    /\ IF IsFolderNameExists(folders, freq[r].name, freq[r].parentId, NoFolder)
       THEN ReqOver(r)
       ELSE freq' = [freq EXCEPT ![r].pc = "createRead"]
    /\ UNCHANGED <<folders, nextFolder>>
    /\ FolderFrame
    /\ UNCHANGED fcalls

\* createFolder(): the stored folders arrive and are checked
CreateRead(r) ==
    /\ freq[r].pc = "createRead"
    /\ IF CreateFolderRejects(folders, freq[r].name, freq[r].parentId)
       THEN ReqOver(r) /\ UNCHANGED nextFolder
       ELSE /\ nextFolder' = nextFolder + 1
            /\ freq' = [freq EXCEPT ![r].pc = "createWrite",
                                    ![r].snap = folders \cup
                                        {Folder(AllFolderIds[nextFolder + 1], freq[r].name,
                                                freq[r].parentId)}]
    /\ UNCHANGED folders
    /\ FolderFrame
    /\ UNCHANGED fcalls

\* createFolder(): the array with the new folder is written
CreateWrite(r) ==
    /\ freq[r].pc = "createWrite"
    /\ folders' = freq[r].snap
    /\ ReqOver(r)
    /\ UNCHANGED nextFolder
    /\ FolderFrame
    /\ UNCHANGED fcalls

\* handleEditFolder(folderId, currentName): the user has typed another name
StartEdit(r, folderId, newName) ==
    /\ freq[r].pc = "idle"
    /\ \A q \in Requests : q < r => freq[q].pc # "idle"
    /\ \E f \in folders : f.id = folderId /\ f.name # newName
    /\ freq' = [freq EXCEPT ![r] = [NoReq EXCEPT !.kind = "edit", !.pc = "editGet",
                                                 !.name = newName, !.folderId = folderId]]
    /\ fcalls < MaxFolderCalls
    /\ fcalls' = fcalls + 1
    /\ UNCHANGED <<folders, nextFolder>>
    /\ FolderFrame

\* handleEditFolder: folders = await getFolders(); the parent of the folder
EditGet(r) ==
    /\ freq[r].pc = "editGet"
    /\ freq' = [freq EXCEPT ![r].pc = "editCheck",
                            ![r].parentId =
                                IF \E f \in folders : f.id = freq[r].folderId
                                THEN (CHOOSE f \in folders : f.id = freq[r].folderId).parentId
                                ELSE NoFolder]
    /\ UNCHANGED <<folders, nextFolder>>
    /\ FolderFrame
    /\ UNCHANGED fcalls

\* handleEditFolder: exists = await isFolderNameExists(newName, parentId, folderId)
EditCheck(r) ==
    /\ freq[r].pc = "editCheck"
    /\ IF IsFolderNameExists(folders, freq[r].name, freq[r].parentId, freq[r].folderId)
       THEN ReqOver(r)
       ELSE freq' = [freq EXCEPT ![r].pc = "updateRead"]
    /\ UNCHANGED <<folders, nextFolder>>
    /\ FolderFrame
    /\ UNCHANGED fcalls

\* updateFolder(): the stored folders arrive; a missing folder or a sibling of
\* that name is refused
UpdateRead(r) ==
    /\ freq[r].pc = "updateRead"
    /\ IF \/ ~\E f \in folders : f.id = freq[r].folderId
          \/ \E f \in folders :
                /\ f.id = freq[r].folderId
                /\ IsFolderNameExists(folders, freq[r].name, f.parentId, f.id)
       THEN ReqOver(r)
       ELSE freq' = [freq EXCEPT ![r].pc = "updateWrite",
                                 ![r].snap = UpdateFolder(folders, freq[r].folderId,
                                                          freq[r].name)]
    /\ UNCHANGED <<folders, nextFolder>>
    /\ FolderFrame
    /\ UNCHANGED fcalls

\* updateFolder(): the array with the new name is written
UpdateWrite(r) ==
    /\ freq[r].pc = "updateWrite"
    /\ folders' = freq[r].snap
    /\ ReqOver(r)
    /\ UNCHANGED nextFolder
    /\ FolderFrame
    /\ UNCHANGED fcalls

\* handleDeleteFolder(folderId) is called for a folder of the list
StartDelete(r, folderId) ==
    /\ freq[r].pc = "idle"
    /\ \A q \in Requests : q < r => freq[q].pc # "idle"
    /\ folderId \in FolderIdsOf(folders)
    /\ freq' = [freq EXCEPT ![r] = [NoReq EXCEPT !.kind = "delete", !.pc = "deleteTree",
                                                 !.folderId = folderId]]
    /\ fcalls < MaxFolderCalls
    /\ fcalls' = fcalls + 1
    /\ UNCHANGED <<folders, nextFolder>>
    /\ FolderFrame

\* handleDeleteFolder: the tree arrives; the folder is looked up among the
\* root folders and their children; with stars in it the user confirms
DeleteTree(r, confirmed) ==
    /\ freq[r].pc = "deleteTree"
    /\ LET roots == {f \in folders : f.parentId = NoFolder}
           found == \E f \in folders :
                       /\ f.id = freq[r].folderId
                       /\ (f \in roots \/ f.parentId \in FolderIdsOf(roots))
           totalItems == Cardinality({i \in DOMAIN store :
                             store[i].folderId \in Doomed(folders, freq[r].folderId)})
       IN  IF ~found \/ (totalItems > 0 /\ ~confirmed)
           THEN ReqOver(r)
           ELSE freq' = [freq EXCEPT ![r].pc = "deleteRead"]
    /\ UNCHANGED <<folders, nextFolder>>
    /\ FolderFrame
    /\ UNCHANGED fcalls

\* deleteFolder(folderId, null): the stored folders arrive
DeleteRead(r) ==
    /\ freq[r].pc = "deleteRead"
    /\ freq' = [freq EXCEPT ![r].pc = "detachRead",
                            ![r].doomed = Doomed(folders, freq[r].folderId),
                            ![r].snap = {f \in folders :
                                            f.id \notin Doomed(folders, freq[r].folderId)}]
    /\ UNCHANGED <<folders, nextFolder>>
    /\ FolderFrame
    /\ UNCHANGED fcalls

\* deleteFolder(): batchUpdate reads the stars (const items = await this.getAll())
DetachRead(r) ==
    /\ freq[r].pc = "detachRead"
    /\ freq' = [freq EXCEPT ![r].pc = "detachWrite", ![r].items = store]
    /\ UNCHANGED <<folders, nextFolder>>
    /\ FolderFrame
    /\ UNCHANGED fcalls

\* deleteFolder(): batchUpdate writes the stars with the folder ids cleared
DetachWrite(r) ==
    /\ freq[r].pc = "detachWrite"
    /\ store' = Detach(freq[r].items, freq[r].doomed, NoFolder)
    /\ freq' = [freq EXCEPT ![r].pc = "deleteWrite", ![r].items = << >>]
    /\ UNCHANGED <<folders, nextFolder>>
    /\ UNCHANGED <<fam, spc, sop, sitems, sbefore, salone, since, lastWrite, lastDone,
                   expected, serial, onlyAdds, scalls>>
    /\ UNCHANGED <<chatVars, domVars, idVars, recVars, migVars, loadVars, ioVars, treeVars, lateVars>>
    /\ UNCHANGED fcalls

\* deleteFolder(): the array without the folder and its children is written
DeleteWrite(r) ==
    /\ freq[r].pc = "deleteWrite"
    /\ folders' = freq[r].snap
    /\ ReqOver(r)
    /\ UNCHANGED nextFolder
    /\ FolderFrame
    /\ UNCHANGED fcalls

\* handleMoveStarred(turnId): the user picks one of the stored folders and the
\* star's folderId is updated
MoveStarred(w, key, folderId) ==
    /\ folderId \in FolderIdsOf(folders)
    /\ StarCall(w, [kind |-> "update", key |-> key, item |-> NullArg,
                    updates |-> [folderId |-> folderId]])

NextFolder ==
    \/ \E r \in Requests, parentId \in FolderIdSet \cup {NoFolder}, name \in FolderNames :
          StartCreate(r, parentId, name)
    \/ \E r \in Requests : CreateCheck(r)
    \/ \E r \in Requests : CreateRead(r)
    \/ \E r \in Requests : CreateWrite(r)
    \/ \E r \in Requests, folderId \in FolderIdSet, newName \in FolderNames :
          StartEdit(r, folderId, newName)
    \/ \E r \in Requests : EditGet(r)
    \/ \E r \in Requests : EditCheck(r)
    \/ \E r \in Requests : UpdateRead(r)
    \/ \E r \in Requests : UpdateWrite(r)
    \/ \E r \in Requests, folderId \in FolderIdSet : StartDelete(r, folderId)
    \/ \E r \in Requests, confirmed \in BOOLEAN : DeleteTree(r, confirmed)
    \/ \E r \in Requests : DeleteRead(r)
    \/ \E r \in Requests : DetachRead(r)
    \/ \E r \in Requests : DetachWrite(r)
    \/ \E r \in Requests : DeleteWrite(r)

\* deleting folders while stars are moved into them
NextFolderStar ==
    \/ \E r \in Requests, folderId \in FolderIdSet : StartDelete(r, folderId)
    \/ \E r \in Requests, confirmed \in BOOLEAN : DeleteTree(r, confirmed)
    \/ \E r \in Requests : DeleteRead(r)
    \/ \E r \in Requests : DetachRead(r)
    \/ \E r \in Requests : DetachWrite(r)
    \/ \E r \in Requests : DeleteWrite(r)
    \/ \E w \in Writers, key \in StarKeys, folderId \in FolderIds : MoveStarred(w, key, folderId)
    \/ \E w \in Writers : StarRead(w)
    \/ \E w \in Writers : StarWrite(w)

----------------------------------------------------------------------------
(* extractText(element) of the adapters. A string is a sequence of            *)
(* characters; " " stands for white space, "x" for any other character.       *)

MaxTextLen == 2

TextChars == {" ", "x"}
Texts == UNION {[1..n -> TextChars] : n \in 0..MaxTextLen}

\* a JavaScript string value
Str(chars) == [str |-> chars]

\* querySelector(...) found no element
NoMatch == [nomatch |-> TRUE]

\* a matched element: the textContent of the first descendant the adapter's
\* selector finds (NoMatch: none), and the element's own textContent, which
\* holds the text of every descendant
IsPartOf(part, whole) ==
    \E i \in 0..Len(whole) :
        i + Len(part) <= Len(whole) /\ SubSeq(whole, i + 1, i + Len(part)) = part

TextElements ==
    {el \in [match : {Str(t) : t \in Texts} \cup {NoMatch}, text : {Str(t) : t \in Texts}] :
        el.match # NoMatch => IsPartOf(el.match.str, el.text.str)}

TextAdapters == {"grok", "doubao", "tongyi", "claude", "deepseek"}

\* String.prototype.trim()
RECURSIVE TrimStart(_)
TrimStart(chars) ==
    IF chars # << >> /\ Head(chars) = " " THEN TrimStart(Tail(chars)) ELSE chars

RECURSIVE TrimEnd(_)
TrimEnd(chars) ==
    IF chars # << >> /\ chars[Len(chars)] = " "
    THEN TrimEnd(SubSeq(chars, 1, Len(chars) - 1))
    ELSE chars

Trim(v) == Str(TrimEnd(TrimStart(v.str)))

\* textEl?.textContent
OptTextContent(match) == IF match = NoMatch THEN Undefined ELSE match

\* a || b on strings and undefined: "" and undefined are falsy
OrElse(a, b) == IF a = Undefined \/ a = Str(EmptyStr) THEN b ELSE a

\* '[图片或文件]'
Placeholder == Str(<<"[", "x", "]">>)

Returned(value) == [threw |-> FALSE, value |-> value]
Threw == [threw |-> TRUE, value |-> Undefined]

\* v.trim(): a TypeError when v is undefined
TrimCall(v) == IF v = Undefined THEN Threw ELSE Returned(Trim(v))

\* GrokAdapter.extractText: textElement?.textContent?.trim() || ''
GrokExtractText(el) ==
    LET textContent == OptTextContent(el.match)
        trimmed == IF textContent = Undefined THEN Undefined ELSE Trim(textContent)
    IN  Returned(OrElse(trimmed, Str(EmptyStr)))

\* const text = (...).trim(); return text || '[图片或文件]'
ExtractTextOrPlaceholder(text) ==
    IF text.threw THEN text ELSE Returned(OrElse(text.value, Placeholder))

\* DoubaoAdapter / DeepSeekAdapter.extractText: (textEl?.textContent || '').trim()
DoubaoExtractText(el) ==
    ExtractTextOrPlaceholder(TrimCall(OrElse(OptTextContent(el.match), Str(EmptyStr))))

\* TongyiAdapter / ClaudeAdapter.extractText:
\* (bubble?.textContent || element.textContent || '').trim()
TongyiExtractText(el) ==
    ExtractTextOrPlaceholder(
        TrimCall(OrElse(OrElse(OptTextContent(el.match), el.text), Str(EmptyStr))))

ExtractText(a, el) ==
    CASE a = "grok" -> GrokExtractText(el)
      [] a \in {"doubao", "deepseek"} -> DoubaoExtractText(el)
      [] OTHER -> TongyiExtractText(el)

NotCalled == [threw |-> FALSE, value |-> NoMatch]

\* adapter.extractText(element)
CallExtractText ==
    /\ txOut = NotCalled
    /\ txOut' = ExtractText(txAdapter, txElem)
    /\ UNCHANGED <<txAdapter, txElem, monVars, impVars, provVars>>
    /\ UNCHANGED <<starVars, chatVars, domVars, idVars, recVars, migVars,
                   loadVars, ioVars, treeVars, folderVars>>

NextText == CallExtractText

----------------------------------------------------------------------------
(* DataSyncTab: import in merge mode. mergeData() reads the whole local     *)
(* storage, merges the imported object into it key by key and writes the    *)
(* merged object back.                                                      *)

\* the storage keys of the model: one collection merged by 'key', one by 'id'
ImpKeys == {"chatTimelineStars", "prompts"}

\* the identifying field of the records stored under a key
FieldOf(key) == IF key \in {"chatTimelineStars", "chatTimelinePins"} THEN "key" ELSE "id"

FieldValues == {"a", "b", "c"}

\* a record of a collection: its identifying field and the rest of it
ImpRecord(key, v, rest) ==
    IF FieldOf(key) = "key" THEN [key |-> v, rest |-> rest] ELSE [id |-> v, rest |-> rest]

\* item[field] !== undefined
HasField(item, field) == field \in DOMAIN item

\* the arrays the program stores and exports under a key: records with
\* pairwise distinct field values
ImpArrays(key, rest) ==
    {Arr([i \in 1..Len(vs) |-> ImpRecord(key, vs[i], rest)]) :
        vs \in {q \in UNION {[1..n -> FieldValues] : n \in 0..MaxItems} :
                   \A i, j \in 1..Len(q) : i # j => q[i] # q[j]}}


\* new Map() after map.set(key, item) for every item of arr whose field is
\* defined: the entries in insertion order
RECURSIVE MapSetAll(_, _, _)
MapSetAll(entries, arr, field) ==
    IF arr = << >> THEN entries
    ELSE LET item == Head(arr)
             at == {i \in 1..Len(entries) : entries[i][field] = item[field]}
             next == IF ~HasField(item, field) THEN entries
                     ELSE IF at # {} THEN [entries EXCEPT ![CHOOSE i \in at : TRUE] = item]
                     ELSE Append(entries, item)
         IN  MapSetAll(next, Tail(arr), field)

\* mergeArrayByField() that appends the imported records to the existing ones
MergeArrayConcat(existing, newArr, field) ==
    IF ~IsArr(existing) \/ ~IsArr(newArr) THEN newArr
    ELSE Arr(existing.items \o newArr.items)

\* mergeArrayByField(): Array.from(map.values())
MergeArrayByField(existing, newArr, field) ==
    IF ~IsArr(existing) \/ ~IsArr(newArr) THEN newArr
    ELSE Arr(MapSetAll(MapSetAll(<< >>, existing.items, field), newArr.items, field))

\* { ...existing, ...newValue }
SpreadObjects(existing, newValue) ==
    [k \in DOMAIN existing \cup DOMAIN newValue |->
        IF k \in DOMAIN newValue THEN newValue[k] ELSE existing[k]]

IsPlatformSettings(key) == key \in {"timelinePlatformSettings", "smartInputPlatformSettings"}

\* mergeByKey()
MergeByKey(key, existing, newValue) ==
    IF key = "chatTimelineStars" THEN MergeArrayByField(existing, newValue, "key")
    ELSE IF key = "chatTimelinePins" THEN MergeArrayByField(existing, newValue, "key")
    ELSE IF key = "prompts" THEN MergeArrayByField(existing, newValue, "id")
    ELSE IF key = "folders" THEN MergeArrayByField(existing, newValue, "id")
    ELSE IF IsPlatformSettings(key) THEN SpreadObjects(existing, newValue)
    ELSE newValue

\* mergedData of mergeData(): a key the import does not hold (Undefined)
\* keeps its value, a key the storage does not hold takes the new value
MergedData(existingData, newData) ==
    [key \in ImpKeys |->
        IF newData[key] = Undefined THEN existingData[key]
        ELSE IF existingData[key] = Undefined THEN newData[key]
        ELSE MergeByKey(key, existingData[key], newData[key])]

NoImport == [pc |-> "idle", newData |-> [k \in ImpKeys |-> Undefined],
             existingData |-> [k \in ImpKeys |-> Undefined]]

\* the objects that hold one collection, or none (mergeData() merges key by key)
OneCollection(rest) ==
    {[k \in ImpKeys |-> Undefined]} \cup
    UNION {{[k \in ImpKeys |-> IF k = key THEN arr ELSE Undefined] : arr \in ImpArrays(key, rest)} :
              key \in ImpKeys}

\* the data of an export, as an import brings it
ImportFiles == OneCollection("new")

\* handleImport() in merge mode: mergeData(importData.data) up to the
\* result of getAllStorageData()
ImportRead(newData) ==
    /\ impCall.pc \in {"idle", "done"}
    /\ impCalls < MaxImports
    /\ impCalls' = impCalls + 1
    /\ impCall' = [pc |-> "set", newData |-> newData, existingData |-> impStore]
    /\ UNCHANGED <<impStore, starVars, chatVars, domVars, idVars, recVars, migVars,
                   loadVars, ioVars, treeVars, folderVars, textVars, monVars, provVars>>

\* mergeData(): chrome.storage.local.set(mergedData) lands
ImportSet ==
    /\ impCall.pc = "set"
    /\ impStore' = MergedData(impCall.existingData, impCall.newData)
    /\ impCall' = [impCall EXCEPT !.pc = "done"]
    /\ UNCHANGED <<impCalls, starVars, chatVars, domVars, idVars, recVars, migVars,
                   loadVars, ioVars, treeVars, folderVars, textVars, monVars, provVars>>

\* another page stores one more record: a turn is starred
OtherPageAdds(v) ==
    /\ LET key == "chatTimelineStars"
           arr == IF impStore[key] = Undefined THEN << >> ELSE impStore[key].items
       IN  /\ Len(arr) < MaxItems
           /\ \A i \in 1..Len(arr) : arr[i][FieldOf(key)] # v
           /\ impStore' = [impStore EXCEPT ![key] = Arr(Append(arr, ImpRecord(key, v, "old")))]
    /\ UNCHANGED <<impCall, impCalls, starVars, chatVars, domVars, idVars, recVars, migVars,
                   loadVars, ioVars, treeVars, folderVars, textVars, monVars, provVars>>

NextImport ==
    \/ \E newData \in ImportFiles : ImportRead(newData)
    \/ ImportSet
    \/ \E v \in FieldValues : OtherPageAdds(v)

----------------------------------------------------------------------------
(* Initial states and specifications *)

\* the star / pin stores before any call
StarIdle ==
    /\ store = << >>
    /\ spc = [w \in Writers |-> "idle"]
    /\ sop = [w \in Writers |-> NoOp]
    /\ sitems = [w \in Writers |-> << >>]
    /\ sbefore = [w \in Writers |-> << >>]
    /\ salone = [w \in Writers |-> TRUE]
    /\ since = [w \in Writers |-> {}]
    /\ lastWrite = NoWrite
    /\ lastDone = NoDone
    /\ expected = [k \in StarKeys |-> NullArg]
    /\ serial = TRUE
    /\ onlyAdds = TRUE
    /\ scalls = 0

\* an empty conversation page
DomIdle ==
    /\ dom = << >>
    /\ attr = [e \in Elems |-> EmptyStr]
    /\ nodeIdCache = [e \in Elems |-> EmptyStr]
    /\ nextElem = 0
    /\ hsteps = 0
    /\ stableKey = [e \in Elems |-> EmptyStr]
    /\ lastKey = [e \in Elems |-> NoKey]
    /\ scanKeys = << >>
    /\ markers = << >>
    /\ markerMap = EmptyNodes
    /\ look = NoLook
    /\ starred = NoStar

\* the chat times before any call
ChatIdle ==
    /\ chatTimes = [c \in Convs |-> NoRec]
    /\ now = 1
    /\ clast = NoCall
    /\ cprev = NoCall
    /\ ccalls = 0

\* nothing stored in either scope, no script loaded
MigIdle ==
    /\ syncArea = NoItems
    /\ localArea = NoItems
    /\ mig = [i \in Loads |-> NoMig]
    /\ copied = {}

\* no script has called a store
LoadIdle == loadCall = [i \in Loads |-> NoAccess]

\* nothing stored, no store call made
IoIdle ==
    /\ backend = "chrome"
    /\ ioStore = Undefined
    /\ ioLast = NoIo
    /\ ioCalls = 0

\* a document of unrelated elements, no container asked for
TreeIdle ==
    /\ parentOf = [n \in TreeNodes |-> NoNode]
    /\ kindOf = [n \in TreeNodes |-> "other"]
    /\ container = NoNode
    /\ located = FALSE

\* no folder, no handler running
FolderIdle ==
    /\ folders = {}
    /\ freq = [r \in Requests |-> NoReq]
    /\ nextFolder = 0
    /\ fcalls = 0

\* no extractText call made
TextIdle ==
    /\ txAdapter = "grok"
    /\ txElem = [match |-> NoMatch, text |-> Str(EmptyStr)]
    /\ txOut = NotCalled

\* the monitor has not been started, no event handled
MonIdle ==
    /\ monRunning = FALSE
    /\ generating = FALSE
    /\ aiGenerating = FALSE
    /\ events = << >>
    /\ checks = 0
    /\ recorderKind = "stateChange"
    /\ labelVisible = FALSE
    /\ renderPending = << >>
    /\ labels = [e \in Elems |-> NoTime]

\* nothing stored, no import made
ImpIdle ==
    /\ impStore = [k \in ImpKeys |-> Undefined]
    /\ impCall = NoImport
    /\ impCalls = 0

\* no node key is known to come from a platform id
ProvIdle == stableNodes = [c \in Convs |-> {}]

LateIdle == TextIdle /\ MonIdle /\ ImpIdle /\ ProvIdle

MoreIdle == LoadIdle /\ IoIdle /\ TreeIdle /\ FolderIdle /\ LateIdle

InitStar ==
    /\ fam \in Families
    /\ StarIdle
    /\ ChatIdle
    /\ adapter = "doubao"
    /\ DomIdle
    /\ RecIdle
    /\ MoreIdle
    /\ MigIdle

SpecStar == InitStar /\ [][NextStar]_vars

InitChat ==
    /\ fam = "chatTimelineStars"
    /\ StarIdle
    /\ ChatIdle
    /\ adapter = "doubao"
    /\ DomIdle
    /\ RecIdle
    /\ MoreIdle
    /\ MigIdle

InitId ==
    /\ fam = "chatTimelineStars"
    /\ StarIdle
    /\ ChatIdle
    /\ adapter \in Adapters
    /\ DomIdle
    /\ RecIdle
    /\ MoreIdle
    /\ MigIdle

SpecId == InitId /\ [][NextId]_vars

SpecLookup == InitChat /\ [][NextLookup]_vars

SpecRec == InitChat /\ [][NextRec]_vars

SpecPoll == InitChat /\ [][NextPoll]_vars

\* the page after init() of the recorder; with the first recorder the
\* monitor has been started; the time labels are shown
\* (chatTimeLabelEnabled is not false)
InitMon ==
    /\ fam = "chatTimelineStars"
    /\ StarIdle
    /\ ChatIdle
    /\ adapter = "doubao"
    /\ DomIdle
    /\ RecIdle
    /\ MigIdle
    /\ LoadIdle /\ IoIdle /\ TreeIdle /\ FolderIdle
    /\ TextIdle /\ ImpIdle /\ ProvIdle
    /\ recorderKind \in RecorderKinds
    /\ monRunning = (recorderKind = "stateChange")
    /\ generating = FALSE
    /\ aiGenerating = FALSE
    /\ events = IF monRunning THEN <<"stop", "start">> ELSE << >>
    /\ checks = 0
    /\ labelVisible = TRUE
    /\ renderPending = << >>
    /\ labels = [e \in Elems |-> NoTime]

SpecMon == InitMon /\ [][NextMon]_vars

\* the page of a platform without chatTimes, the monitor not started yet
InitMonitor ==
    /\ fam = "chatTimelineStars"
    /\ StarIdle
    /\ ChatIdle
    /\ adapter = "doubao"
    /\ DomIdle
    /\ RecIdle
    /\ MigIdle
    /\ LoadIdle /\ IoIdle /\ TreeIdle /\ FolderIdle
    /\ TextIdle /\ ImpIdle /\ ProvIdle
    /\ monRunning = FALSE
    /\ generating = FALSE
    /\ aiGenerating \in BOOLEAN
    /\ events = << >>
    /\ checks = 0
    /\ recorderKind = "off"
    /\ labelVisible = TRUE
    /\ renderPending = << >>
    /\ labels = [e \in Elems |-> NoTime]

SpecMonitor == InitMonitor /\ [][NextMonitor]_vars

\* the storage holds collections the program has stored; nothing is imported yet
InitImport ==
    /\ fam = "chatTimelineStars"
    /\ StarIdle
    /\ ChatIdle
    /\ adapter = "doubao"
    /\ DomIdle
    /\ RecIdle
    /\ MigIdle
    /\ LoadIdle /\ IoIdle /\ TreeIdle /\ FolderIdle
    /\ TextIdle /\ MonIdle /\ ProvIdle
    /\ impStore \in OneCollection("old")
    /\ impCall = NoImport
    /\ impCalls = 0

SpecImport == InitImport /\ [][NextImport]_vars

SpecChat == InitChat /\ [][NextChat]_vars

\* legacy items and array records the scopes may hold when the script loads
ItemIndex1 == [urlWithoutProtocol |-> <<"u">>, nodeId |-> Undefined, index |-> Num(1),
               timestamp |-> 0]
ItemNode2 == [urlWithoutProtocol |-> <<"u">>, nodeId |-> Num(2), index |-> Undefined,
              timestamp |-> 2]
ItemNoUrl == [urlWithoutProtocol |-> EmptyStr, nodeId |-> Num(2), index |-> Undefined,
              timestamp |-> 2]
RecU1 == [urlWithoutProtocol |-> <<"u">>, nodeId |-> Num(1), index |-> Undefined,
          timestamp |-> 1]
KeyedU2 == [key |-> LegacyStar2, value |-> ItemNode2]

\* the legacy records chrome.storage.sync may hold
SyncLegacy ==
    {NoItems,
     [NoItems EXCEPT ![LegacyStar1] = ItemIndex1],
     [NoItems EXCEPT ![LegacyStar1] = ItemIndex1, ![LegacyStar2] = ItemNoUrl,
                     ![LegacyPin1] = ItemIndex1]}

\* what chrome.storage.sync holds: data written before the move to local
SyncInits ==
    {[legacy EXCEPT ![oldOrNew] = Val(1)] :
        legacy \in SyncLegacy, oldOrNew \in {Biwhckdj, Prompts}}

\* the legacy records chrome.storage.local may hold
LocalLegacy ==
    {NoItems,
     [NoItems EXCEPT ![LegacyStar1] = ItemIndex1, ![LegacyStar2] = ItemNode2]}

\* the arrays chrome.storage.local may hold
LocalArrays ==
    {<<Absent, Absent>>, <<Arr(<<RecU1>>), Absent>>, <<Absent, Arr(<<KeyedU2>>)>>}

\* what chrome.storage.local holds
LocalInits ==
    {[legacy EXCEPT ![AitStars] = arrays[1], ![ChatTimelineStars] = arrays[2],
                    ![Biwhckdj] = w] :
        legacy \in LocalLegacy, arrays \in LocalArrays, w \in {Absent, Val(2)}}

InitMig ==
    /\ fam = "chatTimelineStars"
    /\ StarIdle
    /\ ChatIdle
    /\ adapter = "doubao"
    /\ DomIdle
    /\ RecIdle
    /\ MoreIdle
    /\ syncArea \in SyncInits
    /\ localArea \in LocalInits
    /\ mig = [i \in Loads |-> NoMig]
    /\ copied = {}

SpecMig == InitMig /\ [][NextMig]_vars

\* the chat times a load may find: none, a conversation last visited long
\* ago, a conversation visited now
LoadChatTimes ==
    {[c \in Convs |-> NoRec],
     [[c \in Convs |-> NoRec] EXCEPT
         !["c1"] = [createTime |-> 1, lastVisit |-> 1, nodes |-> EmptyNodes]],
     [[c \in Convs |-> NoRec] EXCEPT
         !["c1"] = [createTime |-> 1, lastVisit |-> MaxNow, nodes |-> EmptyNodes]]}

InitLoad ==
    /\ fam = "chatTimelineStars"
    /\ StarIdle
    /\ chatTimes \in LoadChatTimes
    /\ now = MaxNow
    /\ clast = NoCall
    /\ cprev = NoCall
    /\ ccalls = 0
    /\ adapter = "doubao"
    /\ DomIdle
    /\ RecIdle
    /\ MoreIdle
    /\ syncArea \in SyncInits
    /\ localArea \in LocalInits
    /\ mig = [i \in Loads |-> NoMig]
    /\ copied = {}

SpecLoad == InitLoad /\ [][NextLoad]_vars

InitIo ==
    /\ fam = "chatTimelineStars"
    /\ StarIdle
    /\ ChatIdle
    /\ adapter = "doubao"
    /\ DomIdle
    /\ RecIdle
    /\ MigIdle
    /\ LoadIdle
    /\ TreeIdle
    /\ FolderIdle
    /\ backend \in Backends
    /\ ioStore = Undefined
    /\ ioLast = NoIo
    /\ ioCalls = 0
    /\ LateIdle

SpecIo == InitIo /\ [][NextIo]_vars

InitTree ==
    /\ fam = "chatTimelineStars"
    /\ StarIdle
    /\ ChatIdle
    /\ adapter = "doubao"
    /\ DomIdle
    /\ RecIdle
    /\ MigIdle
    /\ LoadIdle
    /\ IoIdle
    /\ FolderIdle
    /\ parentOf \in Documents
    /\ kindOf \in {k \in [TreeNodes -> Kinds] : k[DocRoot] = "other"}
    /\ container = NoNode
    /\ located = FALSE
    /\ LateIdle

SpecTree == InitTree /\ [][NextTree]_vars

InitFolder ==
    /\ fam = "chatTimelineStars"
    /\ StarIdle
    /\ ChatIdle
    /\ adapter = "doubao"
    /\ DomIdle
    /\ RecIdle
    /\ MigIdle
    /\ LoadIdle
    /\ IoIdle
    /\ TreeIdle
    /\ FolderIdle
    /\ LateIdle

SpecFolder == InitFolder /\ [][NextFolder]_vars

\* one star outside the folders, one root folder
InitFolderStar ==
    /\ fam = "chatTimelineStars"
    /\ store = <<[key |-> "u:5", question |-> "a", folderId |-> NoFolder]>>
    /\ spc = [w \in Writers |-> "idle"]
    /\ sop = [w \in Writers |-> NoOp]
    /\ sitems = [w \in Writers |-> << >>]
    /\ sbefore = [w \in Writers |-> << >>]
    /\ salone = [w \in Writers |-> TRUE]
    /\ since = [w \in Writers |-> {}]
    /\ lastWrite = NoWrite
    /\ lastDone = NoDone
    /\ expected = [k \in StarKeys |-> NullArg]
    /\ serial = TRUE
    /\ onlyAdds = TRUE
    /\ scalls = 0
    /\ ChatIdle
    /\ adapter = "doubao"
    /\ DomIdle
    /\ RecIdle
    /\ MigIdle
    /\ LoadIdle
    /\ IoIdle
    /\ TreeIdle
    /\ folders = {Folder("f1", "a", NoFolder)}
    /\ freq = [r \in Requests |-> NoReq]
    /\ nextFolder = 1
    /\ fcalls = 0
    /\ LateIdle

SpecFolderStar == InitFolderStar /\ [][NextFolderStar]_vars

\* the node keys generateTurnId gives: from a platform-assigned id, from an index
StableNodeKeys == {DoubaoPrefix \o v : v \in AttrValues}
TempNodeKeys == {DoubaoPrefix \o NatToStr(n) : n \in 0..(MaxElems - 1)}

\* a stored conversation whose nodes were recorded under the keys given
RecordedUnder(keys) ==
    [createTime |-> 1, lastVisit |-> 1, nodes |-> [k \in keys |-> 1]]

\* the first conversation holds nodes recorded under platform ids and under
\* indexes (a key is of one kind only), the second is not stored or holds
\* one node recorded under an index
InitCleanup ==
    /\ fam = "chatTimelineStars"
    /\ StarIdle
    /\ adapter = "doubao"
    /\ DomIdle
    /\ RecIdle
    /\ MigIdle
    /\ LoadIdle
    /\ IoIdle
    /\ TreeIdle
    /\ FolderIdle
    /\ TextIdle
    /\ MonIdle
    /\ ImpIdle
    /\ now = MaxNow
    /\ clast = NoCall
    /\ cprev = NoCall
    /\ ccalls = 0
    /\ \E stable \in SUBSET StableNodeKeys, temp \in SUBSET TempNodeKeys,
          other \in {NoRec, RecordedUnder({TempKey0})} :
          /\ stable \cap temp = {}
          /\ stableNodes = [c \in Convs |-> IF c = "c1" THEN stable ELSE {}]
          /\ chatTimes = [c \in Convs |->
                            IF c = "c1" THEN RecordedUnder(stable \cup temp) ELSE other]

NextCleanup == \E conv \in ConvArgs : CallCleanupTempIds(conv)

SpecCleanup == InitCleanup /\ [][NextCleanup]_vars

InitText ==
    /\ fam = "chatTimelineStars"
    /\ StarIdle
    /\ ChatIdle
    /\ adapter = "doubao"
    /\ DomIdle
    /\ RecIdle
    /\ MigIdle
    /\ LoadIdle
    /\ IoIdle
    /\ TreeIdle
    /\ FolderIdle
    /\ MonIdle
    /\ ImpIdle
    /\ ProvIdle
    /\ txAdapter \in TextAdapters
    /\ txElem \in TextElements
    /\ txOut = NotCalled

SpecText == InitText /\ [][NextText]_vars

----------------------------------------------------------------------------
(* Claims about the star / pin stores (SpecStar) *)

AllIdle == \A w \in Writers : ~InFlight(w)

NoDupKeys(items) ==
    \A i, j \in 1..Len(items) : i # j => items[i].key # items[j].key

\* C3: after any sequence of add() calls, each run to completion before the
\* next starts, getAll() holds exactly one record per distinct key upserted,
\* and that record is the last item upserted for the key.
C3_UpsertOnePerKey ==
    (serial /\ onlyAdds /\ AllIdle) =>
        /\ NoDupKeys(store)
        /\ \A i \in 1..Len(store) : store[i].key \in StarKeys
        /\ \A k \in StarKeys :
              IF expected[k] = NullArg
              THEN KeyAbsent(store, k)
              ELSE \E i \in 1..Len(store) : store[i] = expected[k]

\* a serial run of adds whose last add replaced a different record with the same key
C3_Witness ==
    /\ serial /\ onlyAdds /\ AllIdle
    /\ lastDone.op.kind = "add" /\ lastDone.wrote
    /\ \E i \in 1..Len(lastDone.before) :
          /\ lastDone.before[i].key = lastDone.op.item.key
          /\ lastDone.before[i] # lastDone.op.item
    /\ Len(store) = 2

\* a change written by another operation between this write's read and this
\* write, on another key, and not in the array this write had read
Overwritten(c) ==
    /\ c \in lastWrite.since
    /\ OpKey(c) # OpKey(lastWrite.op)
    /\ ~Holds(c, lastWrite.snapshot)

\* C4: store operations take no lock: when an operation writes back the array
\* it read before another operation's write landed, the other operation's
\* change (on a different key) is missing from the stored array afterwards.
C4_LostUpdate ==
    \A c \in lastWrite.since : Overwritten(c) => ~Holds(c, store)

\* both writers have completed and the stored array lacks the first one's add
C4_Witness ==
    /\ AllIdle
    /\ \E c \in lastWrite.since :
          /\ Overwritten(c)
          /\ c.kind = "add"
          /\ KeyAbsent(store, c.item.key)
    /\ lastWrite.op.kind \in {"add", "remove"}

\* C5: remove(key) and update(key, fields) with a key that is not stored,
\* run with no other store operation in flight, leave getAll() as it was.
C5_AbsentKeyNoOp ==
    ( /\ lastDone.op.kind \in {"remove", "update"}
      /\ lastDone.alone
      /\ KeyAbsent(lastDone.before, lastDone.op.key) )
    => lastDone.after = lastDone.before

\* remove() of an absent key wrote a non-empty array back unchanged
C5_Witness ==
    /\ lastDone.op.kind = "remove"
    /\ lastDone.alone
    /\ lastDone.op.key # EmptyKey
    /\ KeyAbsent(lastDone.before, lastDone.op.key)
    /\ lastDone.wrote
    /\ lastDone.before # << >>
    /\ store = lastDone.before

----------------------------------------------------------------------------
(* Claims about ChatTimeStorageManager called directly (SpecChat) *)

\* the last two completed calls are migrateNodeId with the same arguments
MigratedTwice ==
    /\ clast.kind = "migrateNodeId"
    /\ cprev.kind = "migrateNodeId"
    /\ clast.conv = cprev.conv /\ clast.a = cprev.a /\ clast.b = cprev.b

\* C2 as stated: a second migrateNodeId with the same arguments leaves the
\* store as the first left it, finds no tempId entry, writes nothing and
\* returns false.
C2_SecondCallWritesNothing ==
    MigratedTwice => (~clast.changed /\ ~clast.wrote /\ clast.ret = FALSE)

\* C2 amended: a second migrateNodeId with the same arguments leaves the store
\* as the first left it; when tempId differs from realId it finds no tempId
\* entry, writes nothing and returns false.
C2_MigrateIdempotent ==
    MigratedTwice =>
        /\ ~clast.changed
        /\ clast.a # clast.b => (~clast.wrote /\ clast.ret = FALSE)

\* the first call moved an entry, the second call had the same arguments
C2_Witness ==
    /\ MigratedTwice
    /\ cprev.ret = TRUE /\ cprev.changed
    /\ clast.a # clast.b
    /\ clast.ret = FALSE

----------------------------------------------------------------------------
(* Claims about turn ids (SpecId) *)

\* C8: once generateTurnId has returned a platform-id-derived key for an
\* element, every later call for that element returns the same key (it never
\* goes back to an index-derived key).
C8_StableIsTerminal ==
    \A e \in Elems : stableKey[e] # EmptyStr => lastKey[e].key = stableKey[e]

\* the last call for an element came after the host had dropped its id
\* attribute and a turn before it had been removed, and returned the stable key
C8_Witness ==
    \E e \in Elems :
        /\ stableKey[e] # EmptyStr
        /\ lastKey[e].attr = EmptyStr
        /\ lastKey[e].key = stableKey[e]
        /\ dom = <<e>> /\ e = 2

\* C9 as stated: the keys generateTurnId gives to the turns of one pass over
\* the matched elements are pairwise distinct.
C9_KeysDistinct ==
    \A i, j \in 1..Len(scanKeys) : i # j => scanKeys[i] # scanKeys[j]

----------------------------------------------------------------------------
(* Claims about lookup by stored key (SpecLookup) *)

LookTurnId == DoubaoPrefix \o KeyToStr(look.key)

\* C10: lookup by stored key returns the marker whose turn id equals the
\* stored key converted to a turn id when there is one; only without such a
\* marker is the stored value used as a position in the marker list.
C10_ExactMatchFirst ==
    (look.via # "none" /\ look.key.type # "null") =>
        /\ LookTurnId \in DOMAIN markerMap =>
               /\ look.result # NullMarker
               /\ look.result = markers[markerMap[LookTurnId]]
               /\ look.result.id = LookTurnId
        /\ (LookTurnId \notin DOMAIN markerMap /\ look.result # NullMarker) =>
               /\ look.key.type = "number"
               /\ look.key.num < Len(markers)
               /\ look.result = markers[look.key.num + 1]

\* a numeric stored key that matches one marker exactly and is the position
\* of another: the exact match was returned
C10_Witness ==
    /\ look.via = "findMarkerByStoredIndex"
    /\ look.key.type = "number"
    /\ LookTurnId \in DOMAIN markerMap
    /\ Positional(look.key, markers) # NullMarker
    /\ Positional(look.key, markers) # look.result
    /\ look.result.id = LookTurnId

\* marker j shows the starred turn, which was starred under an index-derived
\* id and has a platform-derived id now
StarredMigratedAt(j) ==
    /\ starred.temp
    /\ j \in 1..Len(markers)
    /\ markers[j].element = starred.element
    /\ nodeIdCache[starred.element] # EmptyStr
    /\ markers[j].id = DoubaoPrefix \o nodeIdCache[starred.element]

\* C11: after the provisional key of a turn has been migrated to a stable key,
\* a lookup by the old provisional stored key returns null and a lookup by the
\* stable stored key returns the turn
C11_MigratedKeyNotFound ==
    \A j \in 1..Len(markers) :
        (look.via # "none" /\ StarredMigratedAt(j)) =>
            /\ look.key = starred.key => look.result = NullMarker
            /\ look.key = ExtractIndexFromTurnId(markers[j].id) => look.result = markers[j]

\* some marker has the turn id the looked-up key converts to
LookMatches == \E i \in 1..Len(markers) : markers[i].id = LookTurnId

\* C12: a stored key that matches no turn of the document resolves to null:
\* a null key, a non-numeric key without a match and an index out of range
\* give null, and a marker that is returned is the exact match or the marker
\* at the stored position
C12_NotFoundIsNull ==
    look.via # "none" =>
        /\ look.key.type = "null" => look.result = NullMarker
        /\ (look.key.type = "string" /\ ~LookMatches) => look.result = NullMarker
        /\ (look.key.type = "number" /\ ~LookMatches /\ look.key.num >= Len(markers)) =>
               look.result = NullMarker
        /\ look.result # NullMarker =>
               \/ look.result.id = LookTurnId
               \/ /\ look.key.type = "number"
                  /\ look.key.num < Len(markers)
                  /\ look.result = markers[look.key.num + 1]

\* an index out of range was looked up in a document with turns: null
C12_Witness ==
    /\ look.via # "none"
    /\ look.key.type = "number"
    /\ markers # << >>
    /\ look.key.num >= Len(markers)
    /\ ~LookMatches
    /\ look.result = NullMarker

----------------------------------------------------------------------------
(* Claims about the conversation time records (SpecChat) *)

\* a direct call of one of the given kinds completes on this step
CallOf(kinds) == ccalls' = ccalls + 1 /\ clast'.kind \in kinds

CreateTimeSet(all, conv) == HasRec(all, conv) /\ all[conv].createTime # NoTime

\* the calls C13 names
RecordingCalls ==
    {"setCreateTime", "batchSetNodeTimes", "updateLastVisit", "migrateNodeId", "cleanupTempIds"}

C13_Step ==
    CallOf(RecordingCalls) =>
        /\ \A conv \in Convs :
               CreateTimeSet(chatTimes, conv) =>
                   /\ CreateTimeSet(chatTimes', conv)
                   /\ chatTimes'[conv].createTime = chatTimes[conv].createTime
        /\ (clast'.kind = "setCreateTime" /\ CreateTimeSet(chatTimes, clast'.conv)) =>
               /\ ~clast'.wrote
               /\ clast'.ret = FALSE

\* C13: createTime is write-once: once a record has a createTime, no later
\* setCreateTime, batchSetNodeTimes, updateLastVisit, migrateNodeId or
\* cleanupTempIds call changes it, and setCreateTime on such a record writes
\* nothing and returns false
C13_CreateTimeWriteOnce == [][C13_Step]_vars

\* setCreateTime was called, at a later time, on a record that had a
\* createTime: nothing was written
C13_Witness ==
    /\ clast.kind = "setCreateTime"
    /\ clast.conv \in Convs
    /\ CreateTimeSet(chatTimes, clast.conv)
    /\ chatTimes[clast.conv].createTime < now
    /\ ~clast.wrote

C14_Step ==
    CallOf({"updateLastVisit"}) =>
        LET conv == clast'.conv
        IN  IF ~HasRec(chatTimes, conv)
            THEN /\ chatTimes' = chatTimes
                 /\ ~clast'.wrote
                 /\ clast'.ret = FALSE
            ELSE /\ clast'.wrote
                 /\ clast'.ret = TRUE
                 /\ chatTimes'[conv].lastVisit = now
                 /\ chatTimes'[conv].createTime = chatTimes[conv].createTime
                 /\ chatTimes'[conv].nodes = chatTimes[conv].nodes
                 /\ \A other \in Convs \ {conv} : chatTimes'[other] = chatTimes[other]

\* C14: updateLastVisit for a key without a stored record creates no record,
\* writes nothing and returns false; for an existing record it sets lastVisit
\* and changes no other field of any record
C14_UpdateLastVisitFrame == [][C14_Step]_vars

\* updateLastVisit has set, at a later time, the lastVisit of a record that
\* holds a node time, while the other conversation has no record
C14_Witness ==
    /\ clast.kind = "updateLastVisit"
    /\ clast.wrote
    /\ HasRec(chatTimes, clast.conv)
    /\ chatTimes[clast.conv].lastVisit = now
    /\ chatTimes[clast.conv].createTime # NoTime
    /\ chatTimes[clast.conv].createTime < now
    /\ DOMAIN chatTimes[clast.conv].nodes # {}
    /\ \E other \in Convs : ~HasRec(chatTimes, other)

\* the operations that run by themselves on page load or conversation switch
AutomaticCalls == {"updateLastVisit", "cleanupTempIds", "cleanup"}

\* a call that runs without a user action removes no conversation record and
\* no node timestamp
C16_Step ==
    CallOf(AutomaticCalls) =>
        \A conv \in Convs :
            HasRec(chatTimes, conv) =>
                /\ HasRec(chatTimes', conv)
                /\ DOMAIN chatTimes[conv].nodes \subseteq DOMAIN chatTimes'[conv].nodes

\* C16: a stored conversation time record, and each node timestamp in it, is
\* deleted only by an explicit user action or a folder cascade: no operation
\* that runs automatically on page load or conversation switch removes one
C16_NoAutomaticDelete == [][C16_Step]_vars

----------------------------------------------------------------------------
(* Claims about the ChatTimeRecorder (SpecRec) *)

HasKey(all, conv, key) == HasRec(all, conv) /\ key \in DOMAIN all[conv].nodes

\* no recording, migration or reset is in flight
Quiet ==
    /\ \A i \in Invs : inv[i].rpc = "idle" \/ Finished(i)
    /\ \A n \in Navs : rst[n].pc \in {"idle", "done"}

\* C1: when polling has detected the stable key of a turn recorded under a
\* provisional key then, once all in-flight operations have completed, the
\* record of the conversation holds the turn's timestamp under the stable key
\* and no entry under the provisional key, whatever the interleaving of the
\* initial record write and the migration (checked without any navigation)
C1_RekeyedWhenQuiet ==
    \A i \in Invs :
        (navs = 0 /\ inv[i].detected /\ Quiet) =>
            /\ HasKey(chatTimes, inv[i].convW, inv[i].migReal)
            /\ chatTimes[inv[i].convW].nodes[inv[i].migReal] = inv[i].ts
            /\ ~HasKey(chatTimes, inv[i].convW, inv[i].lastNodeId)

\* C7: a recording or polling started in one conversation writes into no
\* other conversation's record
C7_NoCrossConversationWrite ==
    \A i \in Invs : inv[i].wrote \subseteq {inv[i].conv0}

\* the polling of recording i has given up
GaveUp(i) == inv[i].exhausted

\* the step on which a chain gives up is its 11th check, clears the pending
\* record, leaves no timer and starts no migration
C6_GiveUpStep ==
    \A i \in Invs :
        (~GaveUp(i) /\ GaveUp(i)') =>
            /\ inv[i].retry = MaxRetry
            /\ pendingRecord' = NullArg
            /\ inv'[i].ppc = "done"
            /\ ~inv'[i].detected

\* a migration lands
Rekeys == \E j \in Invs : inv[j].ppc = "migw" /\ inv'[j].ppc = "done"

\* no migration removes the provisional key of a turn whose polling gave up
C6_StaysProvisional ==
    \A i \in Invs :
        (GaveUp(i) /\ Rekeys /\ HasKey(chatTimes, inv[i].convW, inv[i].lastNodeId)) =>
            HasKey(chatTimes', inv[i].convW, inv[i].lastNodeId)

\* C6: identity polling makes at most 11 checks; when no stable key has
\* appeared by then it clears the pending record, schedules no further timer,
\* performs no migration, and the stored key of the turn stays provisional
\* for the rest of the session
C6_GivesUpForGood ==
    /\ [](\A i \in Invs : inv[i].retry <= MaxRetry)
    /\ [][C6_GiveUpStep /\ C6_StaysProvisional]_vars

\* the turn keys held by any conversation record
NodeKeys(all) == UNION {DOMAIN all[c].nodes : c \in {c \in Convs : HasRec(all, c)}}

\* a value held under a key before and after a step is the same value, unless
\* the step is the landing of a key migration
C15_Step ==
    \A conv \in Convs : \A key \in NodeKeys(chatTimes) :
        (/\ HasKey(chatTimes, conv, key)
         /\ HasKey(chatTimes', conv, key)
         /\ chatTimes'[conv].nodes[key] # chatTimes[conv].nodes[key]) => Rekeys

\* C15: a node timestamp, once stored under a turn key of a conversation, is
\* never replaced by a different value by a later recording; only a key
\* migration changes the value held under a key
C15_NodeTimeWriteOnce == [][C15_Step]_vars

----------------------------------------------------------------------------
(* Claims about the migrations (SpecMig) *)

\* the old-shape data a migration looks for
OldShape(op, s) ==
    CASE op = "legacy" ->
            \E k \in MigKeys : /\ StartsWith(k, StarPrefix) \/ StartsWith(k, PinPrefix)
                               /\ s.local[k] # Absent
      [] op = "localKeys" -> s.local[Biwhckdj] # Absent
      [] op = "syncToLocal" -> s.sync # NoItems
      [] op = "syncToLocalKeyed" -> s.sync # NoItems \/ s.local[Biwhckdj] # Absent

\* C17: every migration can be run again on every load: called when no
\* old-shape data is stored it changes nothing, and called a second time right
\* after a completed run it leaves both scopes as the first run left them
C17_MigrationsRerunnable ==
    \A op \in MigOps :
        LET s == Areas(syncArea, localArea)
            first == RunMigration(op, s, now)
        IN  /\ ~OldShape(op, s) => first = s
            /\ RunMigration(op, first, now) = first

IdsOf(items) == {RecId(items[j]) : j \in 1..Len(items)}

\* the array migrateFromLegacy() saves: the array it read comes first and
\* unchanged, nothing appended has an id of the array it read, and no id
\* occurs twice
MergedById(existing, saved) ==
    /\ Len(existing) <= Len(saved)
    /\ SubSeq(saved, 1, Len(existing)) = existing
    /\ \A j \in (Len(existing) + 1)..Len(saved) : RecId(saved[j]) \notin IdsOf(existing)
    /\ \A a, b \in 1..Len(saved) : a # b => RecId(saved[a]) # RecId(saved[b])

C18_Step ==
    \A i \in Loads :
        /\ (mig[i].pc = "lgSaveStars" /\ mig'[i].pc \in {"lgGetPins", "lgRemove"}) =>
              MergedById(mig[i].existing, GetAll(localArea', AitStars))
        /\ (mig[i].pc = "lgSavePins" /\ mig'[i].pc = "lgRemove") =>
              MergedById(mig[i].existing, GetAll(localArea', AitPins))

\* C18: migrateFromLegacy() merges the legacy star / pin items into the array
\* already stored, by id: every record of the array is kept unchanged, a
\* legacy item whose id is in the array is not added again, and the saved
\* array holds no two records with the same id
C18_LegacyMergedById == [][C18_Step]_vars

\* a legacy migration has saved the stars: one legacy item had the id of a
\* stored record and was left out, another was appended
C18_Witness ==
    \E i \in Loads :
        /\ Migrating(i)
        /\ mig[i].pc = "lgRemove"
        /\ LegacyKeys(i, PinPrefix) = << >>
        /\ mig[i].existing # << >>
        /\ \E k \in MigKeys :
              /\ StartsWith(k, StarPrefix)
              /\ mig[i].data[k] # Absent
              /\ RecId(mig[i].data[k]) \in IdsOf(mig[i].existing)
        /\ Len(GetAll(localArea, AitStars)) = Len(mig[i].existing) + 1

\* the ids of the legacy items of a family in the snapshot of migration i
LegacyIds(i, prefix, items) ==
    {MakeId(mig[i].data[k].urlWithoutProtocol,
            Coalesce(mig[i].data[k].nodeId, mig[i].data[k].index)) :
        k \in {k \in MigKeys : StartsWith(k, prefix) /\ mig[i].data[k] \in items}}

\* the legacy items in the snapshot of migration i
LegacyItems(i) == {mig[i].data[k] : k \in {k \in MigKeys : mig[i].data[k] # Absent}}

\* a completed conversion of the items `items`: the saved array holds exactly
\* the ids it held before and those of the items; when the migration removes
\* the legacy keys none of them remains and each item's id is in its array
Converted(i, items) ==
    /\ (mig[i].pc = "lgSaveStars" /\ mig'[i].pc \in {"lgGetPins", "lgRemove"}) =>
          IdsOf(GetAll(localArea', AitStars))
             = IdsOf(mig[i].existing) \cup LegacyIds(i, StarPrefix, items)
    /\ (mig[i].pc = "lgSavePins" /\ mig'[i].pc = "lgRemove") =>
          IdsOf(GetAll(localArea', AitPins))
             = IdsOf(mig[i].existing) \cup LegacyIds(i, PinPrefix, items)
    /\ (mig[i].pc = "lgRemove" /\ mig'[i].pc = "over" /\ localArea' # localArea) =>
          /\ \A k \in MigKeys :
                (StartsWith(k, StarPrefix) \/ StartsWith(k, PinPrefix))
                   /\ mig[i].data[k] # Absent => localArea'[k] = Absent
          /\ LegacyIds(i, StarPrefix, items) \subseteq IdsOf(GetAll(localArea', AitStars))
          /\ LegacyIds(i, PinPrefix, items) \subseteq IdsOf(GetAll(localArea', AitPins))

\* C21 as stated: migrating a legacy one-record-per-key dataset converts it
\* completely: the array holds one entry for each legacy record, no legacy key
\* remains, and no legacy record is deleted without appearing in the array
C21_EveryLegacyRecordConverted ==
    [][\A i \in Loads : Converted(i, LegacyItems(i))]_vars

\* the migration a position belongs to: 1 scope (sync to local), 2 key rename
\* (biwhckdj to prompts), 3 record shape (per-record keys to arrays)
Stage(pc) ==
    CASE pc \in {"syncRead", "localSet", "syncClear"} -> 1
      [] pc \in {"lkRead", "lkSet", "lkRemove"} -> 2
      [] OTHER -> 3

\* C22: on load the migrations run in a fixed order: the scope migration is
\* complete before the key rename starts, and the key rename is complete
\* before the record-shape migration starts
C22_FixedOrder ==
    [][\A i \in Loads :
          (Migrating(i) /\ Migrating(i)') => Stage(mig[i].pc) <= Stage(mig'[i].pc)]_vars

\* the arrays of star and pin records
ArrayKeys == {AitStars, AitPins, ChatTimelineStars, ChatTimelinePins}

\* a scope migration writes to local
ScopeWrite(i) == mig[i].pc = "localSet" /\ mig'[i].pc = "syncClear"

C19_Step ==
    \A i \in Loads :
        ScopeWrite(i) =>
            \A k \in ArrayKeys :
                \A j \in 1..Len(GetAll(localArea, k)) :
                    \E h \in 1..Len(GetAll(localArea', k)) :
                        GetAll(localArea', k)[h] = GetAll(localArea, k)[j]

\* C19: when the scope migration runs while local already holds an array of
\* star or pin records, every record of that array is still in it afterwards
C19_LocalRecordsKept == [][C19_Step]_vars

C20_Step ==
    \A i \in Loads :
        ScopeWrite(i) =>
            \A k \in copied : localArea[k] # Absent => localArea'[k] = localArea[k]

\* C20: once a value has been copied from sync to local, no later run of the
\* scope migration replaces the local value by the older value of sync, also
\* after a run that was cut off between its write to local and the clearing
\* of sync, and when two runs overlap
C20_CopiedOnce == [][C20_Step]_vars

----------------------------------------------------------------------------
(* Claims about the order of migration and store calls at load (SpecLoad) *)

\* a store call of load i reads or writes the backing storage
StoreAccess(i) == loadCall[i].pc \in {"get", "set"} /\ loadCall'[i].pc # loadCall[i].pc

\* C23: on each load the migration is complete before any store access: no
\* store operation reads or writes the storage while a migration started on
\* that load is still in progress
C23_MigrationBeforeStoreAccess ==
    [][\A i \in Loads : StoreAccess(i) => ~Migrating(i)]_vars

----------------------------------------------------------------------------
(* Claims about failing storage calls (SpecIo) *)

\* a neutral result: getAll() gives the empty array, add() gives undefined
Neutral(call) ==
    IF call.kind = "getAll" THEN call.value = Arr(<< >>) ELSE call.value = Undefined

\* C24: when a storage read or write of a store operation fails, no exception
\* reaches the caller, the operation gives a neutral result, and the stored
\* collection is left unchanged
C24_FailuresCaught ==
    ioLast.failed => (~ioLast.rejected /\ Neutral(ioLast) /\ ioLast.after = ioLast.before)

----------------------------------------------------------------------------
(* Claims about the conversation container (SpecTree) *)

\* the elements the message selector is meant to match
UserMessages == {n \in TreeNodes : kindOf[n] = "user"}

\* the ancestors of a node: its parent, the parent's parent, ...
RECURSIVE Ancestors(_)
Ancestors(n) ==
    IF parentOf[n] = NoNode THEN {} ELSE {parentOf[n]} \cup Ancestors(parentOf[n])

\* the nodes that are an ancestor of every user message
CommonAncestors == {a \in TreeNodes : \A e \in UserMessages : a \in Ancestors(e)}

\* C25: for N >= 1 matched message elements the container is an ancestor of
\* all N elements, for N >= 2 the elements have a common ancestor, and for
\* N = 0 no container is returned
C25_ContainerIsCommonAncestor ==
    located =>
        /\ UserMessages = {} => container = NoNode
        /\ UserMessages # {} => container \in CommonAncestors
        /\ Cardinality(UserMessages) >= 2 => CommonAncestors # {}

\* three user messages, not all under the same parent, below a container that
\* is not the document root
C25_Witness ==
    /\ located
    /\ Cardinality(UserMessages) >= 3
    /\ \E e, f \in UserMessages : parentOf[e] # parentOf[f]
    /\ container \notin {NoNode, DocRoot}

\* C26: the container is the smallest node that is an ancestor of every
\* matched element: it is one, and no proper descendant of it is
C26_ContainerIsSmallest ==
    (located /\ UserMessages # {}) =>
        /\ container \in CommonAncestors
        /\ \A d \in TreeNodes : container \in Ancestors(d) => d \notin CommonAncestors

\* two user messages whose only shared ancestor is the document root, and
\* other elements below it: the container is the root
C26_Witness ==
    /\ located
    /\ Cardinality(UserMessages) = 2
    /\ \A e \in UserMessages : parentOf[e] # DocRoot
    /\ CommonAncestors = {DocRoot}
    /\ container = DocRoot

\* C27: when exactly one element matches the message selector, the container
\* is that element's immediate parent
C27_SingleMatchParent ==
    located =>
        \A e \in UserMessages : UserMessages = {e} => container = parentOf[e]

\* one user message deep in the document, next to an assistant message
C27_Witness ==
    /\ located
    /\ \E e \in UserMessages :
          /\ UserMessages = {e}
          /\ parentOf[e] # DocRoot
          /\ container = parentOf[e]
    /\ \E n \in TreeNodes : kindOf[n] = "assistant"

----------------------------------------------------------------------------
(* Claims about the folders (SpecFolder, SpecFolderStar) *)

\* no stored folder lies below a stored folder that has a parent itself
DepthAtMostTwo(fs) ==
    \A f, g \in fs : (f.parentId = g.id) => g.parentId = NoFolder

\* request r takes the step in which createFolder() / updateFolder() checks
ChecksIn(r, pc) == freq[r].pc = pc /\ freq'[r] # freq[r]

\* the step refuses: nothing is written and the handler returns
Refused(r) == folders' = folders /\ nextFolder' = nextFolder /\ freq'[r] = NoReq

C28_Step ==
    /\ DepthAtMostTwo(folders')
    /\ \A r \in Requests :
          (ChecksIn(r, "createRead") /\ \E p \in folders :
                                           p.id = freq[r].parentId /\ p.parentId # NoFolder)
              => Refused(r)

NoDupSiblings(fs) ==
    \A f, g \in fs : (f.id # g.id /\ f.parentId = g.parentId) => f.name # g.name

C29_Step ==
    /\ NoDupSiblings(folders')
    /\ \A r \in Requests :
          /\ (ChecksIn(r, "createRead") /\ \E f \in folders :
                                              /\ f.name = freq[r].name
                                              /\ f.parentId = freq[r].parentId)
                => Refused(r)
          /\ (ChecksIn(r, "updateRead") /\ \E f, g \in folders :
                                              /\ f.id = freq[r].folderId
                                              /\ g.id # f.id
                                              /\ g.parentId = f.parentId
                                              /\ g.name = freq[r].name)
                => Refused(r)

\* C29: creating or renaming a folder to the name of an existing sibling is
\* refused before any write, so no two sibling folders ever have the same
\* name, also when two create requests for the same name under the same
\* parent are in flight at the same time
C29_NoDuplicateSiblingNames == [][C29_Step]_vars

\* two creations of the same name under the same parent passed the handler's
\* check together; one has written its folder, the other is about to write
C29_Witness ==
    \E r \in Requests :
        /\ freq[r].kind = "create"
        /\ freq[r].pc = "createWrite"
        /\ \E f \in folders : f.name = freq[r].name /\ f.parentId = freq[r].parentId
        /\ NoDupSiblings(freq[r].snap)

\* C30: after a folder is deleted no star record references the deleted
\* folder or a deleted child folder through its folderId
C30_NoDanglingFolderId ==
    \A i \in DOMAIN store :
        store[i].folderId = NoFolder \/ store[i].folderId \in FolderIdsOf(folders)

----------------------------------------------------------------------------
(* Claims about extractText (SpecText) *)

\* the element shows no text: its textContent is empty or white space
NoTextContent(el) == Trim(el.text) = Str(EmptyStr)

\* C31: for every adapter extractText(element) never throws and, when the
\* matched element has no text content, returns a non-empty placeholder
C31_ExtractTextPlaceholder ==
    txOut # NotCalled =>
        /\ ~txOut.threw
        /\ NoTextContent(txElem) => txOut.value # Str(EmptyStr)

----------------------------------------------------------------------------
(* Claims about the adapters' operations (SpecId) *)

\* the turn id the current document gives for element e at position index:
\* the platform id the element carries now, else the index
TurnIdOfDocument(e, index) ==
    IF adapter = "doubao" /\ attr[e] # EmptyStr THEN DoubaoPrefix \o attr[e]
    ELSE IF adapter = "doubao" THEN DoubaoPrefix \o NatToStr(index)
    ELSE TongyiPrefix \o NatToStr(index)

\* C32: adapter operations are pure functions over the current document: a
\* call of generateTurnId changes no adapter state, and its result depends
\* only on the current document and the arguments
C32_AdapterOperationsPure ==
    [][\A i \in Elems :
          CallGenerateTurnId(i) =>
              /\ nodeIdCache' = nodeIdCache
              /\ lastKey'[dom[i]].key = TurnIdOfDocument(dom[i], i - 1)]_vars

----------------------------------------------------------------------------
(* Claims about cleanupTempIds (SpecCleanup) *)

\* the node keys of a stored conversation
NodeKeysOf(all, conv) == IF HasRec(all, conv) THEN DOMAIN all[conv].nodes ELSE {}

\* C35: cleanupTempIds removes from a conversation's nodes exactly the
\* entries whose key is a temporary (platform prefix + index) id and leaves
\* every entry stored under a stable platform-assigned id untouched
C35_CleanupRemovesTempOnly ==
    [][\A conv \in Convs :
          CallCleanupTempIds(conv) =>
              /\ NodeKeysOf(chatTimes', conv) = NodeKeysOf(chatTimes, conv) \cap stableNodes[conv]
              /\ \A k \in NodeKeysOf(chatTimes', conv) :
                    chatTimes'[conv].nodes[k] = chatTimes[conv].nodes[k]]_vars

----------------------------------------------------------------------------
(* Claims about migrateLocalKeys (SpecMig) *)

\* migrateLocalKeys() of load i returns with this step
LocalKeysCompletes(i) ==
    mig[i].pc \in {"lkRead", "lkRemove"} /\ mig'[i].pc = "syncRead"

\* C37: after migrateLocalKeys completes local storage has no 'biwhckdj'
\* key; 'prompts' holds the former 'biwhckdj' value if no 'prompts' value
\* existed before, and an already-existing 'prompts' value is never
\* overwritten (a write of the value that is stored already overwrites nothing)
C37_LocalKeysMigrated ==
    [][\A i \in Loads :
          /\ LocalKeysCompletes(i) => localArea'[Biwhckdj] = Absent
          /\ LocalKeysSet(i) =>
                /\ localArea'[Prompts] = mig[i].data[Biwhckdj]
                /\ localArea[Prompts] \in {Absent, localArea'[Prompts]}]_vars

----------------------------------------------------------------------------
(* Claims about batchSetNodeTimes (SpecChat) *)

\* C38: batchSetNodeTimes (truthy conversation key, non-empty node list) adds
\* only node keys that are not yet present, keeping the time of every key
\* that is, and updates the conversation's stored lastVisit to the current
\* time on every call, including calls in which no new node is added
C38_BatchSetUpdatesLastVisit ==
    [][\A conv \in Convs, list \in NodeLists :
          (list # << >> /\ CallBatchSetNodeTimes(conv, list)) =>
              /\ HasRec(chatTimes', conv)
              /\ \A k \in NodeKeysOf(chatTimes, conv) :
                    /\ k \in NodeKeysOf(chatTimes', conv)
                    /\ chatTimes'[conv].nodes[k] = chatTimes[conv].nodes[k]
              /\ NodeKeysOf(chatTimes', conv) \subseteq
                    NodeKeysOf(chatTimes, conv) \cup {list[1].nodeId}
              /\ chatTimes'[conv].lastVisit = now]_vars

----------------------------------------------------------------------------
(* Claims about the polling of the recorder (SpecPoll) *)

\* the poll chain of recording i detects the real id with this step
PollDetects(i) == inv[i].ppc = "timer" /\ inv'[i].ppc = "mig"

\* C33: the tempId a poll chain migrates is the one recorded for the index
\* the chain was started for, and the real id is the id of that turn, even
\* when a newer pending record has replaced the pending slot meanwhile
C33_PollMigratesOwnTempId ==
    [][\A i \in Invs :
          PollDetects(i) =>
              /\ inv'[i].migTemp = inv[i].lastNodeId
              /\ inv'[i].migReal = GenerateTurnId(dom[inv[i].lastIndex + 1], inv[i].lastIndex)]_vars

----------------------------------------------------------------------------
(* Claims about AIStateMonitor and the recorder's event handlers (SpecMon) *)

IsEvent(x) == x \in {"true", "false"}

\* C36: ai:stateChange is dispatched only when the generating state changes:
\* the events alternate true / false and begin with true after start();
\* stop() while generating dispatches one final false, and nothing is
\* dispatched after a stop() until the next start()
C36_EventsAlternate ==
    /\ generating <=> (events # << >> /\ events[Len(events)] = "true")
    /\ \A p \in 1..Len(events) :
          /\ events[p] = "true" => (p > 1 /\ events[p - 1] \in {"start", "false"})
          /\ events[p] = "false" => (p > 1 /\ events[p - 1] = "true")
          /\ events[p] = "stop" => (p = 1 \/ events[p - 1] # "true")

\* after start() the state changed three times, and stop() came while generating
C36_Witness ==
    \E p \in 1..Len(events) :
        /\ p + 5 <= Len(events)
        /\ SubSeq(events, p, p + 5) = <<"start", "true", "false", "true", "false", "stop">>

\* the recorder's handler ran with this step, for an event with generating:
\* detail.generating of ai:stateChange is the monitor's new _generating, the
\* second recorder asks adapter.isAIGenerating()
Handled == checks' = checks + 1
EventGenerating == IF recorderKind = "stateChange" THEN generating' ELSE aiGenerating

\* a recording begins / a write of a recording lands with this step
Begins(i) == inv[i].rpc = "idle" /\ inv'[i].rpc # "idle"
Lands(i) == inv[i].wpc \in {"sctw", "bsw"} /\ inv'[i].wpc # inv[i].wpc

\* C34: a recording begins only with an event handled while the AI is
\* generating, the store is written only by a recording that has begun, and
\* an event handled while the AI is not generating writes nothing, begins
\* nothing and only calls _renderTimeLabels()
C34_RecordsOnlyWhenGenerating ==
    [][/\ \A i \in Invs : Begins(i) => (Handled /\ EventGenerating /\ aiGenerating)
       /\ chatTimes' # chatTimes => \E i \in Invs : ~Begins(i) /\ inv[i].rpc # "idle" /\ Lands(i)
       /\ (Handled /\ ~EventGenerating) =>
             /\ chatTimes' = chatTimes
             /\ inv' = inv
             /\ renderPending' = RenderCall(renderPending)]_vars

\* one recording has stored its turn, and a later event, handled while the
\* AI was not generating, has called for one more render
C34_Witness ==
    /\ inv[1].wpc = "done" /\ inv[2].rpc = "idle"
    /\ HasRec(chatTimes, "c1") /\ DOMAIN chatTimes["c1"].nodes # {}
    /\ ~aiGenerating
    /\ Len(renderPending) = 2

----------------------------------------------------------------------------
(* Claims about the import in merge mode (SpecImport) *)

\* the field values of a collection (none when the key is not there)
FieldsOf(x, field) ==
    IF x = Undefined THEN {} ELSE {x.items[i][field] : i \in 1..Len(x.items)}

\* the record of a collection with this field value
RecordOf(x, field, v) == x.items[CHOOSE i \in 1..Len(x.items) : x.items[i][field] = v]

\* C39: for a collection the import holds, the object mergeData() stores has
\* exactly one record per field value occurring in the existing collection
\* (as the call read it) or in the imported one: the imported record where
\* the import has one, else the existing record; a collection the import
\* does not hold is stored as it was read
C39_MergeByField ==
    [][ImportSet =>
          \A key \in ImpKeys :
              LET field == FieldOf(key)
                  ex == impCall.existingData[key]
                  im == impCall.newData[key]
                  res == impStore'[key]
                  values == FieldsOf(ex, field) \cup FieldsOf(im, field)
              IN  IF im = Undefined THEN res = ex
                  ELSE /\ IsArr(res)
                       /\ FieldsOf(res, field) = values
                       /\ Len(res.items) = Cardinality(values)
                       /\ \A v \in values :
                             RecordOf(res, field, v) =
                                IF v \in FieldsOf(im, field) THEN RecordOf(im, field, v)
                                ELSE RecordOf(ex, field, v)]_vars

\* an import has been merged into a collection with which it shares one
\* field value, each side holding one more
C39_Witness ==
    /\ impCall.pc = "done"
    /\ \E key \in ImpKeys :
          LET ex == impCall.existingData[key]
              im == impCall.newData[key]
          IN  /\ ex # Undefined /\ im # Undefined
              /\ FieldsOf(ex, FieldOf(key)) = {"a", "b"}
              /\ FieldsOf(im, FieldOf(key)) = {"b", "c"}
              /\ impStore[key] # Undefined
              /\ Len(impStore[key].items) = 3

====
